---- MODULE Spec2Model ----
(***************************************************************************)
(* Payment workflow transition engine of the internal payment system:     *)
(* backend/apps/payments/services.py, state_machine.py, versioning.py and *)
(* backend/apps/audit/services.py.                                         *)
(*                                                                         *)
(* The stored state is the relational rows the services write: one        *)
(* PaymentBatch row, its PaymentRequest rows, and the ApprovalRecord,     *)
(* SOAVersion, IdempotencyKey and AuditLog tables.  Every service call    *)
(* runs in a call slot.  A call is one database transaction under READ    *)
(* COMMITTED: its reads see the committed rows, select_for_update takes   *)
(* the row lock (and waits for it), the lock is held until the call       *)
(* returns, and all of the call's writes become visible together when it  *)
(* commits; an exception rolls all of them back.                          *)
(***************************************************************************)
EXTENDS Integers, Sequences, FiniteSets, Bags, TLC

\* ------------------------------------------------------------------ bounds
MaxRequests == 2    \* PaymentRequest rows that can exist
MaxKeys == 2        \* distinct idempotency keys callers use
MaxCalls == 3       \* call slots (concurrent service calls)
MaxAmount == 2      \* largest amount a caller supplies
MaxUpdates == 2     \* update_request calls that succeed, in all
MaxUploads == 2     \* upload_soa calls that succeed, in all

RequestIds == 1..MaxRequests
Keys == 1..MaxKeys
NoKey == 0          \* idempotency_key=None
Slots == 1..MaxCalls
Amounts == 1..MaxAmount
NoSlot == 0

Users == {"creator", "approver", "admin", "viewer"}

\* apps/users/models.py Role
Role(u) ==
    CASE u = "creator" -> "CREATOR"
      [] u = "approver" -> "APPROVER"
      [] u = "admin" -> "ADMIN"
      [] OTHER -> "VIEWER"

VARIABLES
    batch,      \* the PaymentBatch row: status, submitted_at, completed_at, created_by
    requests,   \* PaymentRequest rows by id: status, version and the payment fields
    approvals,  \* ApprovalRecord table (bag of rows)
    soa,        \* SOAVersion table (bag of rows)
    idem,       \* IdempotencyKey table (bag of rows)
    audit,      \* AuditLog table (bag of rows)
    rowlock,    \* per PaymentRequest row: the slot s holding its row lock (FOR
                \* UPDATE), or -s when slot s holds only the lock of its UPDATE
    batchlock,  \* the slot holding the PaymentBatch row lock
    calls,      \* call slots: operation, position, arguments, rows read, outcome
    writes      \* the status writes (row saves / updates) issued by the last step

db == <<batch, requests, approvals, soa, idem, audit>>
vars == <<batch, requests, approvals, soa, idem, audit, rowlock, batchlock, calls,
          writes>>

\* ------------------------------------------------------------ state machine
PAYMENT_REQUEST_TRANSITIONS ==
    [DRAFT |-> {"SUBMITTED", "DRAFT"},
     SUBMITTED |-> {"PENDING_APPROVAL"},
     PENDING_APPROVAL |-> {"APPROVED", "REJECTED"},
     APPROVED |-> {"PAID"},
     REJECTED |-> {},
     PAID |-> {}]

\* PAYMENT_BATCH_TRANSITIONS with no transition out of PROCESSING
PAYMENT_BATCH_TRANSITIONS_NoCompleted ==
    [DRAFT |-> {"SUBMITTED", "CANCELLED"},
     SUBMITTED |-> {"PROCESSING"},
     PROCESSING |-> {},
     COMPLETED |-> {},
     CANCELLED |-> {}]

PAYMENT_BATCH_TRANSITIONS ==
    [DRAFT |-> {"SUBMITTED", "CANCELLED"},
     SUBMITTED |-> {"PROCESSING"},
     PROCESSING |-> {"COMPLETED"},
     COMPLETED |-> {},
     CANCELLED |-> {}]

TransitionsOf(entity_type) ==
    IF entity_type = "PaymentRequest" THEN PAYMENT_REQUEST_TRANSITIONS
    ELSE PAYMENT_BATCH_TRANSITIONS

\* validate_transition without the same-state rule for DRAFT
validate_transition_Listed(entity_type, current_status, target_status) ==
    LET transitions == TransitionsOf(entity_type) IN
    IF entity_type \notin {"PaymentRequest", "PaymentBatch"} THEN "ValueError"
    ELSE IF current_status \notin DOMAIN transitions THEN "InvalidCurrent"
    ELSE IF transitions[current_status] = {} THEN "Terminal"
    ELSE IF target_status \notin transitions[current_status] THEN "InvalidTransition"
    ELSE "OK"

\* "OK" when the function returns True, else the kind of InvalidStateError raised
\* (or ValueError for an unknown entity_type)
validate_transition(entity_type, current_status, target_status) ==
    LET transitions == TransitionsOf(entity_type) IN
    IF entity_type \notin {"PaymentRequest", "PaymentBatch"} THEN "ValueError"
    ELSE IF current_status \notin DOMAIN transitions THEN "InvalidCurrent"
    ELSE IF transitions[current_status] = {} THEN "Terminal"
    ELSE IF current_status = target_status /\ current_status = "DRAFT" THEN "OK"
    ELSE IF target_status \notin transitions[current_status] THEN "InvalidTransition"
    ELSE "OK"

is_closed_batch(status) == status \in {"COMPLETED", "CANCELLED"}

\* ------------------------------------------------------------------- tables
\* a column that is null, a field the caller left out
Null == -2

NoRequest == [status |-> "NONE", version |-> 0, amount |-> 0, entity_type |-> "NULL",
              beneficiary_name |-> "NULL", base_amount |-> Null, extra_amount |-> Null,
              total_amount |-> Null]
NoBatch == [status |-> "NONE", submitted_at |-> FALSE, completed_at |-> FALSE,
            created_by |-> "none"]

Insert(table, row) == table (+) SetToBag({row})

\* submitted_at_set_when_not_draft as a schema without the constraint has it
submitted_at_set_when_not_draft_Absent(row) == TRUE

\* PaymentBatch.Meta.constraints: status = 'DRAFT' or submitted_at is not null
submitted_at_set_when_not_draft(row) == row.status = "DRAFT" \/ row.submitted_at

\* PaymentBatch.Meta.constraints: status open or completed_at is not null
completed_at_set_when_closed(row) ==
    row.status \in {"DRAFT", "SUBMITTED", "PROCESSING"} \/ row.completed_at

\* the database accepts the PaymentBatch row; it answers a save() of any other
\* row with an IntegrityError
BatchRowAccepted(row) ==
    submitted_at_set_when_not_draft(row) /\ completed_at_set_when_closed(row)

\* PaymentRequest.Meta.constraints: amount is null or amount > 0
amount_positive(row) == row.amount = Null \/ row.amount > 0

\* legacy_or_ledger_exclusive as a schema without the constraint has it
legacy_or_ledger_exclusive_Absent(row) == TRUE

\* PaymentRequest.Meta.constraints: entity_type null and beneficiary_name not null,
\* or entity_type not null and beneficiary_name null
legacy_or_ledger_exclusive(row) ==
    \/ row.entity_type = "NULL" /\ row.beneficiary_name # "NULL"
    \/ row.entity_type # "NULL" /\ row.beneficiary_name = "NULL"

\* PaymentRequest.Meta.constraints: total_amount is null or equals base_amount +
\* extra_amount (a comparison with a null operand does not fail the check)
total_amount_integrity(row) ==
    \/ row.total_amount = Null
    \/ row.base_amount = Null \/ row.extra_amount = Null
    \/ row.total_amount = row.base_amount + row.extra_amount

\* the database accepts the PaymentRequest row; it answers a save() of any other
\* row with an IntegrityError
RequestRowAccepted(row) ==
    /\ amount_positive(row)
    /\ legacy_or_ledger_exclusive(row)
    /\ total_amount_integrity(row)

\* what a stored row keeps of a user reference: set, or null (a system event)
Ref(user) == IF user = "NULL" THEN "NULL" ELSE "USER"

AuditRow(event_type, actor, entity_type, entity_id, previous_state, new_state) ==
    [event_type |-> event_type, actor |-> Ref(actor), entity_type |-> entity_type,
     entity_id |-> entity_id, previous_state |-> previous_state,
     new_state |-> new_state]

\* apps/audit/services.py: appends one AuditLog row
create_audit_entry(log, event_type, actor, entity_type, entity_id, previous_state, new_state) ==
    Insert(log, AuditRow(event_type, actor, entity_type, entity_id,
                         previous_state, new_state))

IdemRows(key, operation) ==
    {k \in BagToSet(idem) : k.key = key /\ k.operation = operation}

\* a lookup that never finds a row
IdemHit_Miss(key, operation) == FALSE

\* IdempotencyKey.objects.filter(key=..., operation=...).first() found a row
IdemHit(key, operation) == key # NoKey /\ IdemRows(key, operation) # {}

IdemTarget(key, operation) == (CHOOSE k \in IdemRows(key, operation) : TRUE).target

IdemRow(key, operation, target) ==
    [key |-> key, operation |-> operation, target |-> target]

\* StoreKey that does not leave the record in the table
StoreKey_Lost(table, key, operation, target) == table

\* Store idempotency key if provided: IdempotencyKey.objects.create(...)
StoreKey(table, key, operation, target) ==
    IF key # NoKey THEN Insert(table, IdemRow(key, operation, target)) ELSE table

ApprovalsOf(r) == {a \in BagToSet(approvals) : a.payment_request = r}

\* ApprovalRow storing APPROVED whatever the decision
ApprovalRow_Approved(r, decision, approver) ==
    [payment_request |-> r, decision |-> "APPROVED", approver |-> Ref(approver)]

\* ApprovalRecord.objects.create(payment_request=, approver=, decision=, comment=)
ApprovalRow(r, decision, approver) ==
    [payment_request |-> r, decision |-> decision, approver |-> Ref(approver)]

ExistingRequests == {r \in RequestIds : requests[r].status # "NONE"}

\* --------------------------------------------------------------- call slots
\* the body of a create-request call as the view reads it from request.data:
\* entityType, amount, beneficiaryName, baseAmount, extraAmount and totalAmount
\* (vendorId / subcontractorId and siteId name active ledger rows, the other
\* legacy fields and extraReason are filled in whenever the one modelled is)
NoBody == [entity_type |-> "NULL", amount |-> Null, beneficiary_name |-> "NULL",
           base_amount |-> Null, extra_amount |-> Null, totalAmount |-> Null]

\* a Phase 1 body
LegacyBody(amount) == [NoBody EXCEPT !.amount = amount, !.beneficiary_name = "NAME"]

\* a Phase 2 body; totalAmount is the total the client claims
LedgerBody(entity_type, base_amount, extra_amount, totalAmount) ==
    [NoBody EXCEPT !.entity_type = entity_type, !.base_amount = base_amount,
                   !.extra_amount = extra_amount, !.totalAmount = totalAmount]

\* legacy bodies with the amounts A, and with the invalid amount 0
LegacyBodies(A) == {LegacyBody(a) : a \in A \cup {0}}

Idle == [op |-> "none", pc |-> "idle", r |-> 0, key |-> NoKey, st |-> "NONE",
         ver |-> 0, actor |-> "none", result |-> "none", ret |-> 0, retst |-> "NONE",
         body |-> NoBody]

InFlight(op, pc, r, key) ==
    [op |-> op, pc |-> pc, r |-> r, key |-> key, st |-> "NONE", ver |-> 0,
     actor |-> "none", result |-> "none", ret |-> 0, retst |-> "NONE",
     body |-> NoBody]

\* slot s can take a new call: no call in it, or one that has returned
Free(s) == calls[s].pc \in {"idle", "done"}

\* the call in slot s returns (result = "OK") or raises (the error kind)
Done(c, result, ret, retst) ==
    [c EXCEPT !.pc = "done", !.st = "NONE", !.ver = 0, !.actor = "none",
              !.result = result, !.ret = ret, !.retst = retst]

\* one status write: a row of kind entity_type goes from one status to another
Write(entity_type, id, from, to) ==
    [entity_type |-> entity_type, id |-> id, from |-> from, to |-> to]

\* the call in slot s ends without having written anything (error, or replay)
Finish(s, c, result, ret, retst) ==
    /\ calls' = [calls EXCEPT ![s] = Done(c, result, ret, retst)]
    /\ writes' = <<>>
    /\ UNCHANGED db

Unlock(locks, s) ==
    [r \in RequestIds |-> IF locks[r] \in {s, -s} THEN NoSlot ELSE locks[r]]

Init ==
    /\ batch = NoBatch
    /\ requests = [r \in RequestIds |-> NoRequest]
    /\ approvals = EmptyBag
    /\ soa = EmptyBag
    /\ idem = EmptyBag
    /\ audit = EmptyBag
    /\ rowlock = [r \in RequestIds |-> NoSlot]
    /\ batchlock = NoSlot
    /\ calls = [s \in Slots |-> Idle]
    /\ writes = <<>>

\* ------------------------------------------------------------- create_batch
create_batch(s, creator, title_ok) ==
    /\ Free(s)
    /\ IF ~title_ok
       THEN /\ calls' = [calls EXCEPT ![s] =
                            Done(InFlight("create_batch", "idle", 0, NoKey),
                                 "ValidationError", 0, "NONE")]
            /\ UNCHANGED <<batch, audit>>
       ELSE /\ batch.status = "NONE"
            /\ batch' = [status |-> "DRAFT", submitted_at |-> FALSE,
                         completed_at |-> FALSE, created_by |-> creator]
            /\ audit' = create_audit_entry(audit, "BATCH_CREATED", creator,
                                           "PaymentBatch", 0, "NULL", "DRAFT")
            /\ calls' = [calls EXCEPT ![s] =
                            Done(InFlight("create_batch", "idle", 0, NoKey),
                                 "OK", 0, "DRAFT")]
    /\ writes' = <<>>
    /\ UNCHANGED <<requests, approvals, soa, idem, rowlock, batchlock>>

\* commit or rollback ends the transaction: every lock the call holds is released
Release(s) ==
    /\ rowlock' = Unlock(rowlock, s)
    /\ batchlock' = IF batchlock = s THEN NoSlot ELSE batchlock

\* creator.role != Role.ADMIN and batch.created_by_id != creator_id
NotOwner(user) == Role(user) # "ADMIN" /\ batch.created_by # user

FreeIds == {r \in RequestIds : requests[r].status = "NONE"}
NextId == CHOOSE r \in FreeIds : \A q \in FreeIds : r <= q
Creating == {s \in Slots : calls[s].op = "add_request" /\ calls[s].pc \in {"lock", "exec"}}

\* -------------------------------------------------------------- add_request
\* the idempotency lookup that precedes the transaction
add_request_start(s, key, body) ==
    /\ Free(s)
    /\ Cardinality(FreeIds) > Cardinality(Creating)
    /\ LET c == [InFlight("add_request", "lock", 0, key) EXCEPT !.body = body] IN
       IF IdemHit(key, "CREATE_PAYMENT_REQUEST")
       THEN LET t == IdemTarget(key, "CREATE_PAYMENT_REQUEST") IN
            Finish(s, c, "OK", t, requests[t].status)
       ELSE /\ calls' = [calls EXCEPT ![s] = c]
            /\ writes' = <<>>
            /\ UNCHANGED db
    /\ UNCHANGED <<rowlock, batchlock>>

\* PaymentBatch.objects.select_for_update().get(id=batch_id)
add_request_lock(s) ==
    /\ calls[s].op = "add_request" /\ calls[s].pc = "lock"
    /\ IF batch.status = "NONE"
       THEN /\ Finish(s, calls[s], "NotFoundError", 0, "NONE")
            /\ UNCHANGED <<rowlock, batchlock>>
       ELSE /\ batchlock = NoSlot
            /\ batchlock' = s
            /\ calls' = [calls EXCEPT ![s].pc = "exec"]
            /\ writes' = <<>>
            /\ UNCHANGED <<db, rowlock>>

\* the rest of the transaction: checks, PaymentRequest, IdempotencyKey, audit
\* the validation of the body: Phase 2 when entity_type is given, else Phase 1
BodyValid(body) ==
    IF body.entity_type # "NULL"
    THEN /\ body.entity_type \in {"VENDOR", "SUBCONTRACTOR"}
         /\ body.base_amount # Null /\ body.base_amount > 0
         /\ body.extra_amount = Null \/ body.extra_amount >= 0
    ELSE /\ body.amount # Null /\ body.amount > 0
         /\ body.beneficiary_name \notin {"NULL", ""}

\* ServerTotal taking the total the client claims when there is one
ServerTotal_Claimed(body) ==
    IF body.totalAmount # Null THEN body.totalAmount
    ELSE body.base_amount + (IF body.extra_amount = Null THEN 0 ELSE body.extra_amount)

\* Compute total server-side: total_amount = base_amount + extra_amount
ServerTotal(body) ==
    body.base_amount + (IF body.extra_amount = Null THEN 0 ELSE body.extra_amount)

\* request_data: the row PaymentRequest.objects.create(**request_data) inserts
RequestData(body) ==
    IF body.entity_type # "NULL"
    THEN [status |-> "DRAFT", version |-> 1, amount |-> ServerTotal(body),
          entity_type |-> body.entity_type, beneficiary_name |-> "NULL",
          base_amount |-> body.base_amount,
          extra_amount |-> IF body.extra_amount = Null THEN 0 ELSE body.extra_amount,
          total_amount |-> ServerTotal(body)]
    ELSE [status |-> "DRAFT", version |-> 1, amount |-> body.amount,
          entity_type |-> "NULL", beneficiary_name |-> body.beneficiary_name,
          base_amount |-> Null, extra_amount |-> Null, total_amount |-> Null]

\* Addable without the state check: a request is added whatever the batch's state
Addable_Always(status) == TRUE

\* Check batch state: batch.status != "DRAFT" raises InvalidStateError
Addable(status) == status = "DRAFT"

add_request_exec(s, creator) ==
    /\ calls[s].op = "add_request" /\ calls[s].pc = "exec"
    /\ LET c == calls[s]
           id == NextId IN
       IF NotOwner(creator) THEN Finish(s, c, "PermissionDeniedError", 0, "NONE")
       ELSE IF ~Addable(batch.status) THEN Finish(s, c, "InvalidStateError", 0, "NONE")
       ELSE IF ~BodyValid(c.body) THEN Finish(s, c, "ValidationError", 0, "NONE")
       ELSE IF ~RequestRowAccepted(RequestData(c.body))
            THEN Finish(s, c, "IntegrityError", 0, "NONE")
       ELSE IF IdemHit(c.key, "CREATE_PAYMENT_REQUEST")
            THEN Finish(s, c, "IntegrityError", 0, "NONE")
       ELSE /\ requests' = [requests EXCEPT ![id] = RequestData(c.body)]
            /\ idem' = StoreKey(idem, c.key, "CREATE_PAYMENT_REQUEST", id)
            /\ audit' = create_audit_entry(audit, "REQUEST_CREATED", creator,
                                           "PaymentRequest", id, "NULL", "DRAFT")
            /\ calls' = [calls EXCEPT ![s] = Done(c, "OK", id, "DRAFT")]
            /\ writes' = <<>>
            /\ UNCHANGED <<batch, approvals, soa>>
    /\ Release(s)

\* a legacy PaymentRequest row written outside the services, with an empty
\* required field (the fixture of SubmitBatchMissingBranchesTests)
InsertLegacyRow ==
    /\ batch.status = "DRAFT"
    /\ FreeIds # {}
    /\ \A s \in Slots : calls[s].pc \in {"idle", "done"}
    /\ requests' = [requests EXCEPT ![NextId] =
                       [RequestData(LegacyBody(1)) EXCEPT !.beneficiary_name = ""]]
    /\ writes' = <<>>
    /\ UNCHANGED <<batch, approvals, soa, idem, audit, rowlock, batchlock, calls>>

\* ----------------------------------------------------------- update_request
\* PaymentRequest.objects.select_for_update().get(id=request_id): the row is read
\* into the in-memory object the call works on
UpdatesMade ==
    LET rows == {e \in BagToSet(audit) : e.event_type = "REQUEST_UPDATED"}
    IN BagCardinality([e \in rows |-> audit[e]])

update_request_lock(s, r) ==
    /\ Free(s)
    /\ UpdatesMade < MaxUpdates
    /\ LET c == InFlight("update_request", "exec", r, NoKey) IN
       IF requests[r].status = "NONE"
       THEN /\ Finish(s, c, "NotFoundError", 0, "NONE")
            /\ UNCHANGED <<rowlock, batchlock>>
       ELSE /\ rowlock[r] = NoSlot
            /\ rowlock' = [rowlock EXCEPT ![r] = s]
            /\ calls' = [calls EXCEPT ![s] = [c EXCEPT !.st = requests[r].status,
                                                       !.ver = requests[r].version]]
            /\ writes' = <<>>
            /\ UNCHANGED <<db, batchlock>>

\* Editable without the DRAFT check: only the later checks stand in the way
Editable_Always(status) == TRUE

\* Check request state: request.status != "DRAFT" raises InvalidStateError
Editable(status) == status = "DRAFT"

\* the checks, then request.save() of the in-memory object and the audit entry;
\* amount and beneficiary_name are the **fields (Null, "NULL": not among them)
update_request_exec(s, creator, amount, beneficiary_name) ==
    /\ calls[s].op = "update_request" /\ calls[s].pc = "exec"
    /\ LET c == calls[s]
           r == c.r
           row == [requests[r] EXCEPT
                      !.status = c.st, !.version = c.ver,
                      !.amount = IF amount = Null THEN @ ELSE amount,
                      !.beneficiary_name =
                          IF beneficiary_name = "NULL" THEN @ ELSE beneficiary_name]
       IN
       IF NotOwner(creator) THEN Finish(s, c, "PermissionDeniedError", 0, "NONE")
       ELSE IF ~Editable(c.st) THEN Finish(s, c, "InvalidStateError", 0, "NONE")
       ELSE IF c.st \in {"APPROVED", "PAID"}
            THEN Finish(s, c, "InvalidStateError", 0, "NONE")
       ELSE IF is_closed_batch(batch.status)
            THEN Finish(s, c, "InvalidStateError", 0, "NONE")
       ELSE IF amount # Null /\ amount <= 0
            THEN Finish(s, c, "ValidationError", 0, "NONE")
       ELSE IF beneficiary_name = "" THEN Finish(s, c, "ValidationError", 0, "NONE")
       ELSE IF ~RequestRowAccepted(row) THEN Finish(s, c, "IntegrityError", 0, "NONE")
       ELSE /\ requests' = [requests EXCEPT ![r] = row]
            /\ audit' = create_audit_entry(audit, "REQUEST_UPDATED", creator,
                            "PaymentRequest", r, "FIELDS", "FIELDS")
            /\ calls' = [calls EXCEPT ![s] = Done(c, "OK", r, c.st)]
            /\ writes' = <<Write("PaymentRequest", r, requests[r].status, c.st)>>
            /\ UNCHANGED <<batch, approvals, soa, idem>>
    /\ Release(s)

\* ------------------------------------------------------------- submit_batch
BatchRequests == ExistingRequests

\* the two saves of each request, then the save of the batch, in code order
SubmitWrites(ids) ==
    LET RECURSIVE Ws(_)
        Ws(S) == IF S = {} THEN <<>>
                 ELSE LET r == CHOOSE x \in S : \A y \in S : x <= y IN
                      <<Write("PaymentRequest", r, "DRAFT", "SUBMITTED"),
                        Write("PaymentRequest", r, "SUBMITTED", "PENDING_APPROVAL")>>
                      \o Ws(S \ {r})
    IN <<Write("PaymentBatch", 0, "DRAFT", "SUBMITTED")>> \o Ws(ids)
       \o <<Write("PaymentBatch", 0, "SUBMITTED", "PROCESSING")>>

SubmitAudit(log, creator, ids) ==
    LET RECURSIVE Au(_, _)
        Au(l, S) == IF S = {} THEN l
                    ELSE LET r == CHOOSE x \in S : \A y \in S : x <= y IN
                         Au(create_audit_entry(
                                create_audit_entry(l, "REQUEST_SUBMITTED", creator,
                                    "PaymentRequest", r, "DRAFT", "SUBMITTED"),
                                "REQUEST_SUBMITTED", "NULL", "PaymentRequest", r,
                                "SUBMITTED", "PENDING_APPROVAL"),
                            S \ {r})
    IN create_audit_entry(
           Au(create_audit_entry(log, "BATCH_SUBMITTED", creator, "PaymentBatch", 0,
                                 "DRAFT", "SUBMITTED"), ids),
           "BATCH_SUBMITTED", "NULL", "PaymentBatch", 0, "SUBMITTED", "PROCESSING")

\* Validate request data (support both legacy and ledger-driven): the stored
\* fields of the row pass
Complete(row) ==
    IF row.entity_type # "NULL"
    THEN row.total_amount # Null /\ row.total_amount > 0
    ELSE row.amount > 0 /\ row.beneficiary_name \notin {"NULL", ""}

\* Unready finding no request at fault
Unready_None(ids) == {}

\* the requests that fail the per-request validation of their stored fields
Unready(ids) == {r \in ids : ~Complete(requests[r])}

\* PaymentBatch.objects.select_for_update().get(id=batch_id)
submit_batch_lock(s) ==
    /\ Free(s)
    /\ LET c == InFlight("submit_batch", "exec", 0, NoKey) IN
       IF batch.status = "NONE"
       THEN /\ Finish(s, c, "NotFoundError", 0, "NONE")
            /\ UNCHANGED <<rowlock, batchlock>>
       ELSE /\ batchlock = NoSlot
            /\ batchlock' = s
            /\ calls' = [calls EXCEPT ![s] = c]
            /\ writes' = <<>>
            /\ UNCHANGED <<db, rowlock>>

\* LockRequests that does not wait for the rows' locks
LockRequests_NoWait(ids) == TRUE

\* batch.requests.select_for_update().order_by("id"): waits until no other
\* transaction holds a lock on any of the rows
LockRequests(ids) == \A r \in ids : rowlock[r] = NoSlot

submit_batch_exec(s, creator) ==
    /\ calls[s].op = "submit_batch" /\ calls[s].pc = "exec"
    /\ LET c == calls[s]
           ids == BatchRequests IN
       IF NotOwner(creator) THEN Finish(s, c, "PermissionDeniedError", 0, "NONE")
       ELSE IF batch.status # "DRAFT"
            THEN IF batch.status = "SUBMITTED"
                 THEN Finish(s, c, "OK", 0, batch.status)
                 ELSE Finish(s, c, "InvalidStateError", 0, "NONE")
       ELSE /\ LockRequests(ids)
            /\ IF ids = {} THEN Finish(s, c, "PreconditionFailedError", 0, "NONE")
               ELSE IF \E r \in ids : requests[r].status # "DRAFT"
                    THEN Finish(s, c, "InvalidStateError", 0, "NONE")
               ELSE IF Unready(ids) # {}
                    THEN Finish(s, c, "PreconditionFailedError", 0, "NONE")
               ELSE IF \E i \in 1..Len(SubmitWrites(ids)) :
                          /\ SubmitWrites(ids)[i].entity_type # "PaymentBatch"
                             \/ SubmitWrites(ids)[i].to = "PROCESSING"
                          /\ validate_transition(SubmitWrites(ids)[i].entity_type,
                                                 SubmitWrites(ids)[i].from,
                                                 SubmitWrites(ids)[i].to) # "OK"
                    THEN Finish(s, c, "InvalidStateError", 0, "NONE")
               ELSE IF ~BatchRowAccepted([batch EXCEPT !.status = "PROCESSING",
                                                       !.submitted_at = TRUE])
                    THEN Finish(s, c, "IntegrityError", 0, "NONE")
               ELSE /\ batch' = [batch EXCEPT !.status = "PROCESSING",
                                              !.submitted_at = TRUE]
                    /\ requests' = [r \in RequestIds |->
                                       IF r \in ids
                                       THEN [requests[r] EXCEPT !.status = "PENDING_APPROVAL"]
                                       ELSE requests[r]]
                    /\ audit' = SubmitAudit(audit, creator, ids)
                    /\ calls' = [calls EXCEPT ![s] = Done(c, "OK", 0, "PROCESSING")]
                    /\ writes' = SubmitWrites(ids)
                    /\ UNCHANGED <<approvals, soa, idem>>
    /\ Release(s)

\* ------------------------------------------------------------- cancel_batch
\* PaymentBatch.objects.select_for_update().get(id=batch_id)
cancel_batch_lock(s) ==
    /\ Free(s)
    /\ LET c == InFlight("cancel_batch", "exec", 0, NoKey) IN
       IF batch.status = "NONE"
       THEN /\ Finish(s, c, "NotFoundError", 0, "NONE")
            /\ UNCHANGED <<rowlock, batchlock>>
       ELSE /\ batchlock = NoSlot
            /\ batchlock' = s
            /\ calls' = [calls EXCEPT ![s] = c]
            /\ writes' = <<>>
            /\ UNCHANGED <<db, rowlock>>

\* CancelAllowed testing only that the batch is not closed
CancelAllowed_NotClosed(status) == ~is_closed_batch(status)

CancelAllowed(status) == status = "DRAFT"

cancel_batch_exec(s, creator) ==
    /\ calls[s].op = "cancel_batch" /\ calls[s].pc = "exec"
    /\ LET c == calls[s] IN
       IF NotOwner(creator) THEN Finish(s, c, "PermissionDeniedError", 0, "NONE")
       ELSE IF ~CancelAllowed(batch.status)
            THEN IF batch.status = "CANCELLED"
                 THEN Finish(s, c, "OK", 0, batch.status)
                 ELSE Finish(s, c, "InvalidStateError", 0, "NONE")
       ELSE IF ~BatchRowAccepted([batch EXCEPT !.status = "CANCELLED",
                                                !.completed_at = TRUE])
            THEN Finish(s, c, "IntegrityError", 0, "NONE")
       ELSE /\ batch' = [batch EXCEPT !.status = "CANCELLED", !.completed_at = TRUE]
            /\ audit' = create_audit_entry(audit, "BATCH_CANCELLED", creator,
                                           "PaymentBatch", 0, batch.status, "CANCELLED")
            /\ calls' = [calls EXCEPT ![s] = Done(c, "OK", 0, "CANCELLED")]
            /\ writes' = <<Write("PaymentBatch", 0, batch.status, "CANCELLED")>>
            /\ UNCHANGED <<requests, approvals, soa, idem>>
    /\ Release(s)

\* ---------------------------------------------------- version-locked update
\* Conflict not raised: the call returns the request as if it had been updated
Conflict_Unraised(s, c) == Finish(s, c, "OK", c.r, requests[c.r].status)

\* updated_count == 0: InvalidStateError("Concurrent modification detected ...",
\* {"expected_version": current_version}); the transaction is rolled back
Conflict(s, c) ==
    /\ calls' = [calls EXCEPT ![s] =
                    [Done(c, "InvalidStateError", 0, "NONE") EXCEPT !.ver = c.ver]]
    /\ writes' = <<>>
    /\ UNCHANGED db

\* version_locked_update that sets the fields and leaves the version as it is
version_locked_update_NoIncrement(rows, ids, current_version, status) ==
    LET hit == {r \in ids : rows[r].version = current_version} IN
    [count |-> Cardinality(hit),
     rows |-> [r \in RequestIds |->
                  IF r \in hit THEN [rows[r] EXCEPT !.status = status] ELSE rows[r]]]

\* queryset.filter(version=current_version).update(**updates, version=F("version")+1)
\* on the rows ids selected by the caller's filter; count is the rows updated
version_locked_update(rows, ids, current_version, status) ==
    LET hit == {r \in ids : rows[r].version = current_version} IN
    [count |-> Cardinality(hit),
     rows |-> [r \in RequestIds |->
                  IF r \in hit
                  THEN [rows[r] EXCEPT !.status = status, !.version = @ + 1]
                  ELSE rows[r]]]

\* PaymentRequest.objects.filter(id=request_id, status=status, version=version)
Filter(rows, id, status, version) ==
    {r \in {id} : rows[r].status = status /\ rows[r].version = version}

\* LookupOrLock without the lookup: every call goes on to the transaction
LookupOrLock_NoLookup(s, op, operation, r, key) ==
    /\ Free(s)
    /\ calls' = [calls EXCEPT ![s] = InFlight(op, "lock", r, key)]
    /\ writes' = <<>>
    /\ UNCHANGED <<db, rowlock, batchlock>>

\* the idempotency lookup that precedes the transaction of approve, reject, mark_paid
LookupOrLock(s, op, operation, r, key) ==
    /\ Free(s)
    /\ LET c == InFlight(op, "lock", r, key) IN
       IF IdemHit(key, operation)
       THEN LET t == IdemTarget(key, operation) IN
            Finish(s, c, "OK", t, requests[t].status)
       ELSE /\ calls' = [calls EXCEPT ![s] = c]
            /\ writes' = <<>>
            /\ UNCHANGED db
    /\ UNCHANGED <<rowlock, batchlock>>

\* LockRequest with a plain get(): the row is read without waiting for its lock
LockRequest_NoWait(s, op) ==
    /\ calls[s].op = op /\ calls[s].pc = "lock"
    /\ LET r == calls[s].r IN
       IF requests[r].status = "NONE"
       THEN /\ Finish(s, calls[s], "NotFoundError", 0, "NONE")
            /\ UNCHANGED <<rowlock, batchlock>>
       ELSE /\ rowlock' = [rowlock EXCEPT ![r] = s]
            /\ calls' = [calls EXCEPT ![s].pc = "exec",
                                      ![s].st = requests[r].status,
                                      ![s].ver = requests[r].version]
            /\ writes' = <<>>
            /\ UNCHANGED <<db, batchlock>>

\* PaymentRequest.objects.select_for_update().get(id=request_id)
LockRequest(s, op) ==
    /\ calls[s].op = op /\ calls[s].pc = "lock"
    /\ LET r == calls[s].r IN
       IF requests[r].status = "NONE"
       THEN /\ Finish(s, calls[s], "NotFoundError", 0, "NONE")
            /\ UNCHANGED <<rowlock, batchlock>>
       ELSE /\ rowlock[r] = NoSlot
            /\ rowlock' = [rowlock EXCEPT ![r] = s]
            /\ calls' = [calls EXCEPT ![s].pc = "exec",
                                      ![s].st = requests[r].status,
                                      ![s].ver = requests[r].version]
            /\ writes' = <<>>
            /\ UNCHANGED <<db, batchlock>>

\* ---------------------------------------------------------- approve_request
approve_request_start(s, r, key) ==
    LookupOrLock(s, "approve_request", "APPROVE_PAYMENT_REQUEST", r, key)

approve_request_lock(s) == LockRequest(s, "approve_request")

\* MayApprove without the role check
MayApprove_Anyone(user) == TRUE

\* approver.role not in (Role.APPROVER, Role.ADMIN) raises PermissionDeniedError
MayApprove(user) == Role(user) \in {"APPROVER", "ADMIN"}

\* AlreadyApprovedRetry answering yes for any key
AlreadyApprovedRetry_AnyKey(key) == TRUE

\* on an APPROVED request: same key = return success (retry); different key = block
AlreadyApprovedRetry(key) == IdemHit(key, "APPROVE_PAYMENT_REQUEST")

approve_request_exec(s, approver) ==
    /\ calls[s].op = "approve_request" /\ calls[s].pc = "exec"
    /\ rowlock[calls[s].r] \in {NoSlot, s}   \* a write waits for the row's lock
    /\ LET c == calls[s]
           r == c.r
           upd == version_locked_update(requests,
                      Filter(requests, r, "PENDING_APPROVAL", c.ver), c.ver, "APPROVED")
       IN
       IF ~MayApprove(approver) THEN Finish(s, c, "PermissionDeniedError", 0, "NONE")
       ELSE IF c.st # "PENDING_APPROVAL"
            THEN IF c.st = "APPROVED" /\ AlreadyApprovedRetry(c.key)
                 THEN Finish(s, c, "OK", r, c.st)
                 ELSE Finish(s, c, "InvalidStateError", 0, "NONE")
       ELSE IF ApprovalsOf(r) # {} THEN Finish(s, c, "IntegrityError", 0, "NONE")
       ELSE IF validate_transition("PaymentRequest", c.st, "APPROVED") # "OK"
            THEN Finish(s, c, "InvalidStateError", 0, "NONE")
       ELSE IF upd.count = 0 THEN Conflict(s, c)
       ELSE IF IdemHit(c.key, "APPROVE_PAYMENT_REQUEST")
            THEN Finish(s, c, "IntegrityError", 0, "NONE")
       ELSE /\ approvals' = Insert(approvals, ApprovalRow(r, "APPROVED", approver))
            /\ requests' = upd.rows
            /\ idem' = StoreKey(idem, c.key, "APPROVE_PAYMENT_REQUEST", r)
            /\ audit' = create_audit_entry(audit, "APPROVAL_RECORDED", approver,
                            "PaymentRequest", r, "PENDING_APPROVAL", "APPROVED")
            /\ calls' = [calls EXCEPT ![s] = Done(c, "OK", r, upd.rows[r].status)]
            /\ writes' = <<Write("PaymentRequest", r, requests[r].status, "APPROVED")>>
            /\ UNCHANGED <<batch, soa>>
    /\ Release(s)

\* ----------------------------------------------------------- reject_request
reject_request_start(s, r, key) ==
    LookupOrLock(s, "reject_request", "REJECT_PAYMENT_REQUEST", r, key)

reject_request_lock(s) == LockRequest(s, "reject_request")

\* AlreadyRejected never answering yes
AlreadyRejected_Never(status) == FALSE

\* AlreadyRejected answering yes for every request that has been decided
AlreadyRejected_Decided(status) == status \in {"APPROVED", "REJECTED", "PAID"}

\* Idempotency: if already REJECTED, return success
AlreadyRejected(status) == status = "REJECTED"

reject_request_exec(s, approver) ==
    /\ calls[s].op = "reject_request" /\ calls[s].pc = "exec"
    /\ rowlock[calls[s].r] \in {NoSlot, s}   \* a write waits for the row's lock
    /\ LET c == calls[s]
           r == c.r
           upd == version_locked_update(requests,
                      Filter(requests, r, "PENDING_APPROVAL", c.ver), c.ver, "REJECTED")
       IN
       IF ~MayApprove(approver) THEN Finish(s, c, "PermissionDeniedError", 0, "NONE")
       ELSE IF c.st # "PENDING_APPROVAL"
            THEN IF AlreadyRejected(c.st)
                 THEN Finish(s, c, "OK", r, c.st)
                 ELSE Finish(s, c, "InvalidStateError", 0, "NONE")
       ELSE IF ApprovalsOf(r) # {} THEN Finish(s, c, "OK", r, c.st)
       ELSE IF validate_transition("PaymentRequest", c.st, "REJECTED") # "OK"
            THEN Finish(s, c, "InvalidStateError", 0, "NONE")
       ELSE IF upd.count = 0 THEN Conflict(s, c)
       ELSE IF IdemHit(c.key, "REJECT_PAYMENT_REQUEST")
            THEN Finish(s, c, "IntegrityError", 0, "NONE")
       ELSE /\ approvals' = Insert(approvals, ApprovalRow(r, "REJECTED", approver))
            /\ requests' = upd.rows
            /\ idem' = StoreKey(idem, c.key, "REJECT_PAYMENT_REQUEST", r)
            /\ audit' = create_audit_entry(audit, "APPROVAL_RECORDED", approver,
                            "PaymentRequest", r, "PENDING_APPROVAL", "REJECTED")
            /\ calls' = [calls EXCEPT ![s] = Done(c, "OK", r, upd.rows[r].status)]
            /\ writes' = <<Write("PaymentRequest", r, requests[r].status, "REJECTED")>>
            /\ UNCHANGED <<batch, soa>>
    /\ Release(s)

\* --------------------------------------------------- generate_soa_for_batch
GeneratedOf(table, r) ==
    {v \in BagToSet(table) : v.payment_request = r /\ v.source = "GENERATED"}

\* NextVersion that always answers 1
NextVersion_One(table, r) == 1

\* existing.first().version_number + 1 if existing.exists() else 1
NextVersion(table, r) ==
    LET vs == {v.version_number : v \in {x \in BagToSet(table) : x.payment_request = r}}
    IN IF vs = {} THEN 1 ELSE (CHOOSE m \in vs : \A n \in vs : n <= m) + 1

\* GenerateRows without the check for an existing GENERATED version
GenerateRows_NoCheck(table, ids) ==
    {[payment_request |-> r, version_number |-> NextVersion(table, r),
      source |-> "GENERATED"] : r \in ids}

\* the rows the call creates: none when a GENERATED version exists in the batch
GenerateRows(table, ids) ==
    IF \E r \in ids : GeneratedOf(table, r) # {}
    THEN {}
    ELSE {[payment_request |-> r, version_number |-> NextVersion(table, r),
           source |-> "GENERATED"] : r \in ids}

GenerateSoa(table, ids) == table (+) SetToBag(GenerateRows(table, ids))

\* KeyShared that never waits: an insert takes no lock on the row it refers to
KeyShared_NoWait(s, rows) == TRUE

\* SOAVersion.payment_request is a ForeignKey: the insert of each row takes a
\* key-share lock on the PaymentRequest row it refers to, and waits while another
\* transaction holds that row FOR UPDATE
KeyShared(s, rows) ==
    \A v \in rows : rowlock[v.payment_request] \notin Slots \ {s}

\* the SOA_GENERATED entry is written only when the call did not return early
GenerateAudit(log, table, ids) ==
    IF \E r \in ids : GeneratedOf(table, r) # {}
    THEN log
    ELSE create_audit_entry(log, "SOA_GENERATED", "NULL", "PaymentBatch", 0, "NULL",
                            "GENERATED")

\* a direct call of generate_soa_for_batch, made as its callers make it: for a
\* batch that has reached COMPLETED
generate_soa_for_batch(s) ==
    /\ Free(s)
    /\ batch.status = "COMPLETED"
    /\ KeyShared(s, GenerateRows(soa, BatchRequests))
    /\ soa' = GenerateSoa(soa, BatchRequests)
    /\ audit' = GenerateAudit(audit, soa, BatchRequests)
    /\ calls' = [calls EXCEPT ![s] =
                    Done(InFlight("generate_soa_for_batch", "idle", 0, NoKey), "OK",
                         Cardinality(GenerateRows(soa, BatchRequests)), "NONE")]
    /\ writes' = <<>>
    /\ UNCHANGED <<batch, requests, approvals, idem, rowlock, batchlock>>

\* --------------------------------------------------------------- upload_soa
UploadsMade ==
    LET rows == {v \in BagToSet(soa) : v.source = "UPLOAD"}
    IN BagCardinality([v \in rows |-> soa[v]])

\* PaymentRequest.objects.select_for_update().get(id=request_id)
upload_soa_lock(s, r) ==
    /\ Free(s)
    /\ UploadsMade < MaxUploads
    /\ LET c == InFlight("upload_soa", "exec", r, NoKey) IN
       IF requests[r].status = "NONE"
       THEN /\ Finish(s, c, "NotFoundError", 0, "NONE")
            /\ UNCHANGED <<rowlock, batchlock>>
       ELSE /\ rowlock[r] = NoSlot
            /\ rowlock' = [rowlock EXCEPT ![r] = s]
            /\ calls' = [calls EXCEPT ![s] = [c EXCEPT !.st = requests[r].status,
                                                       !.ver = requests[r].version]]
            /\ writes' = <<>>
            /\ UNCHANGED <<db, batchlock>>

\* SOAVersion.Meta.constraints: unique_request_version
UniqueRequestVersion(table, row) ==
    \A v \in BagToSet(table) :
        ~(v.payment_request = row.payment_request
          /\ v.version_number = row.version_number)

\* the row SOAVersion.objects.create(... source=SOAVersion.SOURCE_UPLOAD ...) inserts
UploadRow(table, r) ==
    [payment_request |-> r, version_number |-> NextVersion(table, r),
     source |-> "UPLOAD"]

\* the checks, then the next version number, the SOAVersion row and the audit
\* entry; file is whether a file came with the call
upload_soa_exec(s, creator, file) ==
    /\ calls[s].op = "upload_soa" /\ calls[s].pc = "exec"
    /\ LET c == calls[s]
           r == c.r
           row == UploadRow(soa, r)
       IN
       IF NotOwner(creator) THEN Finish(s, c, "PermissionDeniedError", 0, "NONE")
       ELSE IF c.st # "DRAFT" THEN Finish(s, c, "InvalidStateError", 0, "NONE")
       ELSE IF is_closed_batch(batch.status)
            THEN Finish(s, c, "InvalidStateError", 0, "NONE")
       ELSE IF ~file THEN Finish(s, c, "ValidationError", 0, "NONE")
       ELSE IF ~UniqueRequestVersion(soa, row)
            THEN Finish(s, c, "IntegrityError", 0, "NONE")
       ELSE /\ soa' = Insert(soa, row)
            /\ audit' = create_audit_entry(audit, "SOA_UPLOADED", creator,
                            "SOAVersion", r, "NULL", "UPLOAD")
            /\ calls' = [calls EXCEPT ![s] = Done(c, "OK", row.version_number, c.st)]
            /\ writes' = <<>>
            /\ UNCHANGED <<batch, requests, approvals, idem>>
    /\ Release(s)

\* ---------------------------------------------------------------- mark_paid
mark_paid_start(s, r, key) ==
    LookupOrLock(s, "mark_paid", "MARK_PAYMENT_PAID", r, key)

mark_paid_lock(s) == LockRequest(s, "mark_paid")

\* actor.role not in ("CREATOR", "APPROVER") raises PermissionDeniedError
MayMarkPaid(user) == Role(user) \in {"CREATOR", "APPROVER"}

\* AllTerminal counting only the states without outgoing transitions
AllTerminal_Strict(rows) ==
    \A q \in {x \in RequestIds : rows[x].status # "NONE"} :
        rows[q].status \in {"REJECTED", "PAID"}

\* AllTerminal with any() in place of all()
AllTerminal_Any(rows) ==
    \E q \in {x \in RequestIds : rows[x].status # "NONE"} :
        rows[q].status \in {"APPROVED", "REJECTED", "PAID"}

\* req.status in ("APPROVED", "REJECTED", "PAID") for every request of the batch,
\* as the transaction sees the rows
AllTerminal(rows) ==
    \A q \in {x \in RequestIds : rows[x].status # "NONE"} :
        rows[q].status \in {"APPROVED", "REJECTED", "PAID"}

\* checks and the request's own update; then the cascade condition is read
mark_paid_exec(s, actor) ==
    /\ calls[s].op = "mark_paid" /\ calls[s].pc = "exec"
    /\ rowlock[calls[s].r] \in {NoSlot, s}   \* a write waits for the row's lock
    /\ LET c == calls[s]
           r == c.r
           upd == version_locked_update(requests,
                      Filter(requests, r, "APPROVED", c.ver), c.ver, "PAID")
       IN
       IF ~MayMarkPaid(actor)
       THEN Finish(s, c, "PermissionDeniedError", 0, "NONE") /\ Release(s)
       ELSE IF c.st # "APPROVED"
            THEN /\ IF c.st = "PAID"
                    THEN Finish(s, c, "OK", r, c.st)
                    ELSE Finish(s, c, "InvalidStateError", 0, "NONE")
                 /\ Release(s)
       ELSE IF validate_transition("PaymentRequest", c.st, "PAID") # "OK"
            THEN Finish(s, c, "InvalidStateError", 0, "NONE") /\ Release(s)
       ELSE IF upd.count = 0
            THEN Conflict(s, c) /\ Release(s)
       ELSE IF IdemHit(c.key, "MARK_PAYMENT_PAID")
            THEN Finish(s, c, "IntegrityError", 0, "NONE") /\ Release(s)
       ELSE IF batch.status = "PROCESSING" /\ AllTerminal(upd.rows)
            THEN \* the batch is to be completed: batch.save() waits for the batch row
                 /\ calls' = [calls EXCEPT ![s].pc = "cascade", ![s].actor = actor]
                 /\ rowlock' = [rowlock EXCEPT ![r] = IF @ = s THEN s ELSE -s]
                 /\ writes' = <<>>
                 /\ UNCHANGED <<db, batchlock>>
       ELSE /\ requests' = upd.rows
            /\ idem' = StoreKey(idem, c.key, "MARK_PAYMENT_PAID", r)
            /\ audit' = create_audit_entry(audit, "REQUEST_PAID", actor,
                            "PaymentRequest", r, "APPROVED", "PAID")
            /\ calls' = [calls EXCEPT ![s] = Done(c, "OK", r, upd.rows[r].status)]
            /\ writes' = <<Write("PaymentRequest", r, requests[r].status, "PAID")>>
            /\ UNCHANGED <<batch, approvals, soa>>
            /\ Release(s)

\* batch.save(): the UPDATE waits for the lock of the batch row and holds it
mark_paid_save_batch(s) ==
    /\ calls[s].op = "mark_paid" /\ calls[s].pc = "cascade"
    /\ batchlock = NoSlot
    /\ batchlock' = s
    /\ calls' = [calls EXCEPT ![s].pc = "generate"]
    /\ writes' = <<>>
    /\ UNCHANGED <<db, rowlock>>

\* the batch row is written, SOA generation runs, and the transaction commits
mark_paid_cascade(s) ==
    /\ calls[s].op = "mark_paid" /\ calls[s].pc = "generate"
    /\ KeyShared(s, GenerateRows(soa, BatchRequests))
    /\ LET c == calls[s]
           r == c.r
           upd == version_locked_update(requests,
                      Filter(requests, r, "APPROVED", c.ver), c.ver, "PAID")
           paid == create_audit_entry(audit, "REQUEST_PAID", c.actor,
                       "PaymentRequest", r, "APPROVED", "PAID")
           completed == create_audit_entry(paid, "BATCH_COMPLETED", "NULL",
                            "PaymentBatch", 0, "PROCESSING", "COMPLETED")
       IN
       IF validate_transition("PaymentBatch", "PROCESSING", "COMPLETED") # "OK"
       THEN Finish(s, c, "InvalidStateError", 0, "NONE")
       ELSE IF IdemHit(c.key, "MARK_PAYMENT_PAID")
            THEN Finish(s, c, "IntegrityError", 0, "NONE")
       ELSE IF ~BatchRowAccepted([batch EXCEPT !.status = "COMPLETED",
                                               !.completed_at = TRUE])
            THEN Finish(s, c, "IntegrityError", 0, "NONE")
       ELSE /\ requests' = upd.rows
            /\ idem' = StoreKey(idem, c.key, "MARK_PAYMENT_PAID", r)
            /\ batch' = [batch EXCEPT !.status = "COMPLETED", !.completed_at = TRUE]
            /\ soa' = GenerateSoa(soa, BatchRequests)
            /\ audit' = GenerateAudit(completed, soa, BatchRequests)
            /\ calls' = [calls EXCEPT ![s] = Done(c, "OK", r, upd.rows[r].status)]
            /\ writes' = <<Write("PaymentRequest", r, requests[r].status, "PAID"),
                           Write("PaymentBatch", 0, batch.status, "COMPLETED")>>
            /\ UNCHANGED approvals
    /\ Release(s)

\* ------------------------------------------------------- deadlock detection
\* the slots other than s that hold one of the locks
Holders(locks, s) == {IF l < 0 THEN -l ELSE l : l \in locks} \ {NoSlot, s}

\* the slots that hold a lock the call in slot s is waiting for
WaitsFor(s) ==
    LET c == calls[s] IN
    CASE c.op = "add_request" /\ c.pc = "lock" -> Holders({batchlock}, s)
      [] c.op = "submit_batch" /\ c.pc = "exec" /\ batch.status = "DRAFT" ->
             Holders({rowlock[r] : r \in BatchRequests}, s)
      [] c.op \in {"approve_request", "reject_request", "mark_paid"}
             /\ c.pc \in {"lock", "exec"} ->
             Holders({rowlock[c.r]}, s)
      [] c.op = "mark_paid" /\ c.pc = "cascade" -> Holders({batchlock}, s)
      [] c.op = "mark_paid" /\ c.pc = "generate" ->
             Holders({rowlock[v.payment_request] :
                         v \in GenerateRows(soa, BatchRequests)} \cap Slots, s)
      [] OTHER -> {}

\* the slots the call in slot s waits for, directly or through other waiting calls
WaitsForClosure(s) ==
    LET RECURSIVE Reach(_, _)
        Reach(S, n) ==
            IF n = 0 THEN S
            ELSE Reach(S \cup UNION {WaitsFor(t) : t \in S}, n - 1)
    IN Reach(WaitsFor(s), MaxCalls)

\* the call in slot s is in a cycle of calls that wait for each other
Deadlocked(s) == s \in WaitsForClosure(s)

\* the database finds the wait cycle and ends one of the transactions in it with
\* "deadlock detected": the call raises OperationalError and is rolled back
deadlock_detected(s) ==
    /\ Deadlocked(s)
    /\ Finish(s, calls[s], "OperationalError", 0, "NONE")
    /\ Release(s)

\* every step of the call in slot s, its idempotency key drawn from K and the
\* body of a create-request from B
Step(s, K, B) ==
    \/ \E t \in BOOLEAN : create_batch(s, "creator", t)
    \/ \E k \in K, b \in B : add_request_start(s, k, b)
    \/ add_request_lock(s)
    \/ \E u \in Users : add_request_exec(s, u)
    \/ submit_batch_lock(s)
    \/ \E u \in Users : submit_batch_exec(s, u)
    \/ cancel_batch_lock(s)
    \/ \E u \in Users : cancel_batch_exec(s, u)
    \/ \E r \in RequestIds, k \in K : approve_request_start(s, r, k)
    \/ approve_request_lock(s)
    \/ \E u \in Users : approve_request_exec(s, u)
    \/ \E r \in RequestIds, k \in K : reject_request_start(s, r, k)
    \/ reject_request_lock(s)
    \/ \E u \in Users : reject_request_exec(s, u)
    \/ \E r \in RequestIds, k \in K : mark_paid_start(s, r, k)
    \/ mark_paid_lock(s)
    \/ \E u \in Users : mark_paid_exec(s, u)
    \/ mark_paid_save_batch(s)
    \/ mark_paid_cascade(s)
    \/ generate_soa_for_batch(s)

\* service calls made one after another
Next ==
    \/ Step(1, Keys, LegacyBodies({1}))
    \/ InsertLegacyRow

Spec == Init /\ [][Next]_vars

\* two service calls at a time, interleaved step by step
NextConc ==
    \/ \E s \in {1, 2} : Step(s, {s}, LegacyBodies({1}))
    \/ \E s \in {1, 2} : deadlock_detected(s)
    \/ InsertLegacyRow

SpecConc == Init /\ [][NextConc]_vars

\* two service calls at a time that use the same idempotency key
NextSameKey ==
    \/ \E s \in {1, 2} : Step(s, {1}, LegacyBodies({1}))
    \/ InsertLegacyRow

SpecSameKey == Init /\ [][NextSameKey]_vars

\* ------------------------------------------------------------------- views
\* core/exceptions.py status_code_map: the HTTP status of a DomainError
status_code_map(result) ==
    CASE result = "ValidationError" -> 400
      [] result = "InvalidStateError" -> 409
      [] result = "NotFoundError" -> 404
      [] result = "PermissionDeniedError" -> 403
      [] result = "PreconditionFailedError" -> 412
      [] OTHER -> 500

\* Response of a view that lets every exception but DomainError through
Response_Uncaught(op, result) ==
    IF result = "OK" THEN IF op = "add_request" THEN 201 ELSE 200
    ELSE status_code_map(result)

\* the HTTP status a view answers with: the service's return value, a DomainError
\* through the exception handler, or except IntegrityError: 409 CONFLICT
Response(op, result) ==
    IF result = "OK" THEN IF op = "add_request" THEN 201 ELSE 200
    ELSE IF result = "IntegrityError" THEN 409
    ELSE status_code_map(result)

\* service calls made one after another, requests being edited while in DRAFT
NextEdit ==
    \/ Step(1, {1}, LegacyBodies(Amounts))
    \/ \E r \in RequestIds : update_request_lock(1, r)
    \/ \E u \in Users, a \in Amounts \cup {0} : update_request_exec(1, u, a, "NULL")
    \/ InsertLegacyRow

SpecEdit == Init /\ [][NextEdit]_vars

\* ------------------------------------------------ validate_transition alone
Statuses ==
    {"DRAFT", "SUBMITTED", "PENDING_APPROVAL", "APPROVED", "REJECTED", "PAID",
     "PROCESSING", "COMPLETED", "CANCELLED"}

\* the arguments of a validate_transition call, and the message of the error
\* it raised
TransitionArgs(entity_type, current_status, target_status) ==
    [entity_type |-> entity_type, current_status |-> current_status,
     target_status |-> target_status, message |-> "none"]

\* a call of validate_transition is about to be made, with any entity type and
\* any pair of statuses, known or unknown
InitValidate ==
    /\ batch = NoBatch
    /\ requests = [r \in RequestIds |-> NoRequest]
    /\ approvals = EmptyBag
    /\ soa = EmptyBag
    /\ idem = EmptyBag
    /\ audit = EmptyBag
    /\ rowlock = [r \in RequestIds |-> NoSlot]
    /\ batchlock = NoSlot
    /\ \E e \in {"PaymentRequest", "PaymentBatch", "Other"},
          c \in Statuses \cup {"UNKNOWN"}, g \in Statuses \cup {"UNKNOWN"} :
          calls = [s \in Slots |->
                      IF s = 1
                      THEN [InFlight("validate_transition", "exec", 0, NoKey)
                                EXCEPT !.body = TransitionArgs(e, c, g)]
                      ELSE Idle]
    /\ writes = <<>>

\* the call returns True or raises
validate_transition_call(s) ==
    /\ calls[s].op = "validate_transition" /\ calls[s].pc = "exec"
    /\ LET c == calls[s]
           v == validate_transition(c.body.entity_type, c.body.current_status,
                                    c.body.target_status)
       IN calls' = [calls EXCEPT ![s] =
                       [Done(c, CASE v = "OK" -> "OK"
                                  [] v = "ValueError" -> "ValueError"
                                  [] OTHER -> "InvalidStateError", 0, "NONE")
                            EXCEPT !.body.message = v]]
    /\ writes' = <<>>
    /\ UNCHANGED <<db, rowlock, batchlock>>

NextValidate == validate_transition_call(1)

SpecValidate == InitValidate /\ [][NextValidate]_vars

\* ------------------------------------------------- AuditLog.save and delete
\* AuditLog.save without the override: Model.save() overwrites the stored row
AuditLog_save_Overwrite(log, entry, row) ==
    [log |-> Insert(log (-) SetToBag({entry}), row), result |-> "OK"]

\* AuditLog.save: if self.pk and AuditLog.objects.filter(pk=self.pk).exists():
\* raise ValueError; otherwise the row is inserted.  entry is the stored row the
\* instance was loaded from, row the instance as it is saved
AuditLog_save(log, entry, row) ==
    IF BagIn(entry, log) THEN [log |-> log, result |-> "ValueError"]
    ELSE [log |-> Insert(log, row), result |-> "OK"]

\* AuditLog.delete: raise ValueError
AuditLog_delete(log, entry) == [log |-> log, result |-> "ValueError"]

\* a caller loads a stored entry, changes its event type and calls save()
SaveEntry(s, entry) ==
    /\ Free(s)
    /\ BagIn(entry, audit)
    /\ LET saved == AuditLog_save(audit, entry, [entry EXCEPT !.event_type = "MODIFIED"])
       IN /\ audit' = saved.log
          /\ calls' = [calls EXCEPT ![s] =
                          Done(InFlight("AuditLog.save", "idle", 0, NoKey),
                               saved.result, 0, "NONE")]
    /\ writes' = <<>>
    /\ UNCHANGED <<batch, requests, approvals, soa, idem, rowlock, batchlock>>

\* a caller loads a stored entry and calls delete()
DeleteEntry(s, entry) ==
    /\ Free(s)
    /\ BagIn(entry, audit)
    /\ LET deleted == AuditLog_delete(audit, entry)
       IN /\ audit' = deleted.log
          /\ calls' = [calls EXCEPT ![s] =
                          Done(InFlight("AuditLog.delete", "idle", 0, NoKey),
                               deleted.result, 0, "NONE")]
    /\ writes' = <<>>
    /\ UNCHANGED <<batch, requests, approvals, soa, idem, rowlock, batchlock>>

\* service calls made one after another, and code that holds an audit entry
NextAudit ==
    \/ Next
    \/ \E e \in BagToSet(audit) : SaveEntry(1, e)
    \/ \E e \in BagToSet(audit) : DeleteEntry(1, e)

SpecAudit == Init /\ [][NextAudit]_vars

\* --------------------------------------------- legacy and ledger-driven bodies
\* the bodies callers send: Phase 1 bodies; Phase 2 bodies that pass the
\* validation, with a base amount, an extra amount (left out, or 1) and a claimed
\* total (left out, or MaxAmount); Phase 2 bodies with an invalid entity type, base
\* amount or extra amount; a Phase 2 body that also names a beneficiary; and an
\* empty body
Bodies ==
    LegacyBodies({1})
    \cup {LedgerBody("VENDOR", b, x, c) : b \in Amounts, x \in {Null, 1},
                                         c \in {Null, MaxAmount}}
    \cup {LedgerBody("OTHER", 1, Null, Null), LedgerBody("VENDOR", 0, Null, Null),
          LedgerBody("VENDOR", 1, -1, Null)}
    \cup {[LedgerBody("VENDOR", 1, Null, Null) EXCEPT !.beneficiary_name = "NAME"]}
    \cup {NoBody}

\* requests of both shapes are created, edited and submitted, one call at a time
NextLedger ==
    \/ \E c \in BOOLEAN : create_batch(1, "creator", c)
    \/ \E k \in Keys, b \in Bodies : add_request_start(1, k, b)
    \/ add_request_lock(1)
    \/ \E u \in Users : add_request_exec(1, u)
    \/ \E r \in RequestIds : update_request_lock(1, r)
    \/ \E u \in Users, a \in {Null, 0, MaxAmount}, n \in {"NULL", "", "NAME"} :
          update_request_exec(1, u, a, n)
    \/ submit_batch_lock(1)
    \/ \E u \in Users : submit_batch_exec(1, u)

SpecLedger == Init /\ [][NextLedger]_vars

\* ------------------------------------------------- reads that take no lock
\* PaymentRequest.objects.select_for_update().get(id=request_id) on a database
\* backend without row locks, where select_for_update has no effect: the row is
\* read as it is and another call can change it before this call writes
ReadRequest(s, op) ==
    /\ calls[s].op = op /\ calls[s].pc = "lock"
    /\ LET r == calls[s].r IN
       IF requests[r].status = "NONE"
       THEN Finish(s, calls[s], "NotFoundError", 0, "NONE")
       ELSE /\ calls' = [calls EXCEPT ![s].pc = "exec",
                                      ![s].st = requests[r].status,
                                      ![s].ver = requests[r].version]
            /\ writes' = <<>>
            /\ UNCHANGED db
    /\ UNCHANGED <<rowlock, batchlock>>

\* ------------------------------------------------------------ racing approvals
\* the rows after create_batch, add_request with keys 1 and 2, and submit_batch
RaceRequests == {1, 2}

InitRace ==
    /\ batch = [status |-> "PROCESSING", submitted_at |-> TRUE,
                completed_at |-> FALSE, created_by |-> "creator"]
    /\ requests = [r \in RequestIds |->
                      IF r \in RaceRequests
                      THEN [RequestData(LegacyBody(1)) EXCEPT
                                !.status = "PENDING_APPROVAL"]
                      ELSE NoRequest]
    /\ approvals = EmptyBag
    /\ soa = EmptyBag
    /\ idem = SetToBag({IdemRow(r, "CREATE_PAYMENT_REQUEST", r) : r \in RaceRequests})
    /\ audit = SubmitAudit(
                   SetToBag({AuditRow("BATCH_CREATED", "creator", "PaymentBatch", 0,
                                      "NULL", "DRAFT")}
                            \cup {AuditRow("REQUEST_CREATED", "creator",
                                           "PaymentRequest", r, "NULL", "DRAFT")
                                  : r \in RaceRequests}),
                   "creator", RaceRequests)
    /\ rowlock = [r \in RequestIds |-> NoSlot]
    /\ batchlock = NoSlot
    /\ calls = [s \in Slots |-> Idle]
    /\ writes = <<>>

Approvers == {u \in Users : MayApprove(u)}

\* every slot makes one approve call, with a key of its own, by an approver
NextRace ==
    \E s \in Slots :
        \/ calls[s].pc = "idle" /\ \E r \in RaceRequests : approve_request_start(s, r, s)
        \/ approve_request_lock(s)
        \/ \E u \in Approvers : approve_request_exec(s, u)

SpecRace == InitRace /\ [][NextRace]_vars

\* every slot makes one approve or one reject call, with a key of its own, by an
\* approver
NextDecide ==
    \E s \in Slots :
        \/ calls[s].pc = "idle" /\ \E r \in RaceRequests : approve_request_start(s, r, s)
        \/ calls[s].pc = "idle" /\ \E r \in RaceRequests : reject_request_start(s, r, s)
        \/ approve_request_lock(s)
        \/ reject_request_lock(s)
        \/ \E u \in Approvers : approve_request_exec(s, u)
        \/ \E u \in Approvers : reject_request_exec(s, u)

SpecDecide == InitRace /\ [][NextDecide]_vars

\* every slot makes one approve, reject or mark-paid call, with a key of its own,
\* by a user with the role for it, on a backend whose reads take no lock
NextStale ==
    \E s \in Slots :
        \/ calls[s].pc = "idle" /\ \E r \in RaceRequests : approve_request_start(s, r, s)
        \/ calls[s].pc = "idle" /\ \E r \in RaceRequests : reject_request_start(s, r, s)
        \/ calls[s].pc = "idle" /\ \E r \in RaceRequests : mark_paid_start(s, r, s)
        \/ \E op \in {"approve_request", "reject_request", "mark_paid"} : ReadRequest(s, op)
        \/ \E u \in Approvers : approve_request_exec(s, u)
        \/ \E u \in Approvers : reject_request_exec(s, u)
        \/ \E u \in {x \in Users : MayMarkPaid(x)} : mark_paid_exec(s, u)
        \/ mark_paid_save_batch(s)
        \/ mark_paid_cascade(s)

SpecStale == InitRace /\ [][NextStale]_vars

\* the rows InitRace starts from, as the services produce them
RaceRows ==
    /\ batch.status = "PROCESSING"
    /\ \A r \in RaceRequests : requests[r].status = "PENDING_APPROVAL"
    /\ idem = SetToBag({IdemRow(r, "CREATE_PAYMENT_REQUEST", r) : r \in RaceRequests})
    /\ audit = SubmitAudit(
                   SetToBag({AuditRow("BATCH_CREATED", "creator", "PaymentBatch", 0,
                                      "NULL", "DRAFT")}
                            \cup {AuditRow("REQUEST_CREATED", "creator",
                                           "PaymentRequest", r, "NULL", "DRAFT")
                                  : r \in RaceRequests}),
                   "creator", RaceRequests)
    /\ approvals = EmptyBag /\ soa = EmptyBag

\* ------------------------------------------------- racing calls on a DRAFT batch
\* the rows after create_batch and add_request with keys 1 and 2
InitDraft ==
    /\ batch = [status |-> "DRAFT", submitted_at |-> FALSE,
                completed_at |-> FALSE, created_by |-> "creator"]
    /\ requests = [r \in RequestIds |->
                      IF r \in RaceRequests THEN RequestData(LegacyBody(1))
                      ELSE NoRequest]
    /\ approvals = EmptyBag
    /\ soa = EmptyBag
    /\ idem = SetToBag({IdemRow(r, "CREATE_PAYMENT_REQUEST", r) : r \in RaceRequests})
    /\ audit = SetToBag({AuditRow("BATCH_CREATED", "creator", "PaymentBatch", 0,
                                  "NULL", "DRAFT")}
                        \cup {AuditRow("REQUEST_CREATED", "creator",
                                       "PaymentRequest", r, "NULL", "DRAFT")
                              : r \in RaceRequests})
    /\ rowlock = [r \in RequestIds |-> NoSlot]
    /\ batchlock = NoSlot
    /\ calls = [s \in Slots |-> Idle]
    /\ writes = <<>>

\* the batch's creator edits requests, submits and cancels the batch, the calls
\* interleaved step by step
NextDraft ==
    \E s \in Slots :
        \/ \E r \in RaceRequests : update_request_lock(s, r)
        \/ \E a \in Amounts : update_request_exec(s, "creator", a, "NULL")
        \/ submit_batch_lock(s)
        \/ submit_batch_exec(s, "creator")
        \/ cancel_batch_lock(s)
        \/ cancel_batch_exec(s, "creator")

SpecDraft == InitDraft /\ [][NextDraft]_vars

\* the rows InitDraft starts from, as the services produce them
DraftRows ==
    /\ batch = [status |-> "DRAFT", submitted_at |-> FALSE,
                completed_at |-> FALSE, created_by |-> "creator"]
    /\ \A r \in RaceRequests : requests[r] = RequestData(LegacyBody(1))
    /\ approvals = EmptyBag /\ soa = EmptyBag
    /\ idem = SetToBag({IdemRow(r, "CREATE_PAYMENT_REQUEST", r) : r \in RaceRequests})
    /\ audit = SetToBag({AuditRow("BATCH_CREATED", "creator", "PaymentBatch", 0,
                                  "NULL", "DRAFT")}
                        \cup {AuditRow("REQUEST_CREATED", "creator",
                                       "PaymentRequest", r, "NULL", "DRAFT")
                              : r \in RaceRequests})

\* --------------------------------------------- SOA uploads and SOA generation
\* two calls at a time on a batch from DRAFT to COMPLETED: the creator uploads
\* SOA documents and submits, an approver approves, requests are marked paid and
\* the SOA is generated; approve and mark-paid calls use the request's key
NextSoa ==
    \E s \in {1, 2} :
        \/ \E r \in RaceRequests : upload_soa_lock(s, r)
        \/ \E f \in BOOLEAN : upload_soa_exec(s, "creator", f)
        \/ submit_batch_lock(s)
        \/ submit_batch_exec(s, "creator")
        \/ \E r \in RaceRequests : approve_request_start(s, r, r)
        \/ approve_request_lock(s)
        \/ approve_request_exec(s, "approver")
        \/ \E r \in RaceRequests : mark_paid_start(s, r, r)
        \/ mark_paid_lock(s)
        \/ mark_paid_exec(s, "approver")
        \/ mark_paid_save_batch(s)
        \/ mark_paid_cascade(s)
        \/ deadlock_detected(s)
        \/ generate_soa_for_batch(s)

SpecSoa == InitDraft /\ [][NextSoa]_vars

\* ------------------------------------------------------- racing mark-paid calls
\* the rows after create_batch, add_request with keys 1 and 2, submit_batch and
\* approve_request of both requests with keys 1 and 2
InitPaid ==
    /\ batch = [status |-> "PROCESSING", submitted_at |-> TRUE,
                completed_at |-> FALSE, created_by |-> "creator"]
    /\ requests = [r \in RequestIds |->
                      IF r \in RaceRequests
                      THEN [RequestData(LegacyBody(1)) EXCEPT
                                !.status = "APPROVED", !.version = @ + 1]
                      ELSE NoRequest]
    /\ approvals = SetToBag({ApprovalRow(r, "APPROVED", "approver") : r \in RaceRequests})
    /\ soa = EmptyBag
    /\ idem = SetToBag({IdemRow(r, "CREATE_PAYMENT_REQUEST", r) : r \in RaceRequests}
                       \cup {IdemRow(r, "APPROVE_PAYMENT_REQUEST", r) : r \in RaceRequests})
    /\ audit = SubmitAudit(
                   SetToBag({AuditRow("BATCH_CREATED", "creator", "PaymentBatch", 0,
                                      "NULL", "DRAFT")}
                            \cup {AuditRow("REQUEST_CREATED", "creator",
                                           "PaymentRequest", r, "NULL", "DRAFT")
                                  : r \in RaceRequests}),
                   "creator", RaceRequests)
               (+) SetToBag({AuditRow("APPROVAL_RECORDED", "approver", "PaymentRequest",
                                      r, "PENDING_APPROVAL", "APPROVED")
                             : r \in RaceRequests})
    /\ rowlock = [r \in RequestIds |-> NoSlot]
    /\ batchlock = NoSlot
    /\ calls = [s \in Slots |-> Idle]
    /\ writes = <<>>

\* two slots make one mark-paid call each, with a key of its own, by a user with
\* the role for it
NextPaid ==
    \E s \in {1, 2} :
        \/ calls[s].pc = "idle" /\ \E r \in RaceRequests : mark_paid_start(s, r, s)
        \/ mark_paid_lock(s)
        \/ \E u \in {x \in Users : MayMarkPaid(x)} : mark_paid_exec(s, u)
        \/ mark_paid_save_batch(s)
        \/ mark_paid_cascade(s)
        \/ deadlock_detected(s)

SpecPaid == InitPaid /\ [][NextPaid]_vars

\* the rows InitPaid starts from, as the services produce them
PaidRows ==
    /\ batch.status = "PROCESSING"
    /\ \A r \in RaceRequests :
          requests[r] = [RequestData(LegacyBody(1)) EXCEPT
                            !.status = "APPROVED", !.version = @ + 1]
    /\ approvals = SetToBag({ApprovalRow(r, "APPROVED", "approver") : r \in RaceRequests})
    /\ soa = EmptyBag
    /\ idem = SetToBag({IdemRow(r, "CREATE_PAYMENT_REQUEST", r) : r \in RaceRequests}
                       \cup {IdemRow(r, "APPROVE_PAYMENT_REQUEST", r) : r \in RaceRequests})
    /\ audit = SubmitAudit(
                   SetToBag({AuditRow("BATCH_CREATED", "creator", "PaymentBatch", 0,
                                      "NULL", "DRAFT")}
                            \cup {AuditRow("REQUEST_CREATED", "creator",
                                           "PaymentRequest", r, "NULL", "DRAFT")
                                  : r \in RaceRequests}),
                   "creator", RaceRequests)
               (+) SetToBag({AuditRow("APPROVAL_RECORDED", "approver", "PaymentRequest",
                                      r, "PENDING_APPROVAL", "APPROVED")
                             : r \in RaceRequests})

\* ================================================================ properties
AllReturned == \A s \in Slots : calls[s].pc = "done"
CallsOn(r) == {s \in Slots : calls[s].r = r}
Succeeded(S) == {s \in S : calls[s].result = "OK"}
\* the number of rows of a table that satisfy P
Count(table, P(_)) ==
    BagCardinality([x \in {y \in BagToSet(table) : P(y)} |-> table[x]])
ApprovalCount(r) == Count(approvals, LAMBDA a : a.payment_request = r)

\* C1: when every one of the racing approve calls (distinct keys, authorised
\* approvers) has returned, then for each request that was approved at all exactly
\* one of the calls on it succeeded, every other one failed with
\* InvalidStateError, and exactly one ApprovalRecord exists for the request.
C1_ExactlyOneApprovalWins ==
    AllReturned =>
        \A r \in RaceRequests :
            CallsOn(r) # {} =>
                /\ Cardinality(Succeeded(CallsOn(r))) = 1
                /\ \A s \in CallsOn(r) \ Succeeded(CallsOn(r)) :
                       calls[s].result = "InvalidStateError"
                /\ ApprovalCount(r) = 1
                /\ requests[r].status = "APPROVED"

\* all the calls raced on one request and have returned
C1_Witness ==
    /\ AllReturned
    /\ \A s \in Slots : calls[s].r = 1
    /\ Cardinality({s \in Slots : calls[s].result = "InvalidStateError"}) = MaxCalls - 1
\* rows of the IdempotencyKey table for (key, operation) that name request r
IdemCount(key, operation, r) ==
    Count(idem, LAMBDA k : k.key = key /\ k.operation = operation /\ k.target = r)

\* audit entries of request r with the given event type and new state
AuditCount(event_type, r, new_state) ==
    Count(audit, LAMBDA e : /\ e.event_type = event_type
                            /\ e.entity_type = "PaymentRequest"
                            /\ e.entity_id = r
                            /\ e.new_state = new_state)

\* the same operation is called again on request r with key k, right after a call
\* of it with that key returned successfully and left its idempotency record
Replay(s, r, k) ==
    LET c == calls[s] IN
    /\ c.pc = "done" /\ c.result = "OK" /\ c.r = r /\ c.key = k /\ c.ret = r
    /\ \/ /\ c.op = "approve_request"
          /\ IdemCount(k, "APPROVE_PAYMENT_REQUEST", r) = 1
          /\ approve_request_start(s, r, k)
       \/ /\ c.op = "reject_request"
          /\ IdemCount(k, "REJECT_PAYMENT_REQUEST", r) = 1
          /\ reject_request_start(s, r, k)
       \/ /\ c.op = "mark_paid"
          /\ IdemCount(k, "MARK_PAYMENT_PAID", r) = 1
          /\ mark_paid_start(s, r, k)

\* C2: a second approve, reject or mark-paid call with the key of a first successful
\* call returns at once with the same request (same id, same status) and changes no
\* stored row: there is still one ApprovalRecord of the request (approve, reject),
\* one audit entry of the transition and one idempotency record of the key.
C2_ReplayChangesNothing ==
    [][\A s \in Slots, r \in RequestIds, k \in Keys :
          Replay(s, r, k) =>
              /\ UNCHANGED db
              /\ calls'[s].pc = "done" /\ calls'[s].result = "OK"
              /\ calls'[s].ret = calls[s].ret /\ calls'[s].retst = calls[s].retst
              /\ calls[s].op = "approve_request" =>
                     /\ ApprovalCount(r)' = 1
                     /\ AuditCount("APPROVAL_RECORDED", r, "APPROVED")' = 1
                     /\ IdemCount(k, "APPROVE_PAYMENT_REQUEST", r)' = 1
              /\ calls[s].op = "reject_request" =>
                     /\ ApprovalCount(r)' = 1
                     /\ AuditCount("APPROVAL_RECORDED", r, "REJECTED")' = 1
                     /\ IdemCount(k, "REJECT_PAYMENT_REQUEST", r)' = 1
              /\ calls[s].op = "mark_paid" =>
                     /\ AuditCount("REQUEST_PAID", r, "PAID")' = 1
                     /\ IdemCount(k, "MARK_PAYMENT_PAID", r)' = 1
      ]_vars

\* a replayed mark-paid call has returned: the call wrote nothing, the request is
\* PAID by the first call, whose idempotency record names it
C2_Witness ==
    \E s \in Slots :
        /\ calls[s].pc = "done" /\ calls[s].op = "mark_paid" /\ calls[s].result = "OK"
        /\ writes = <<>>
        /\ calls[s].retst = "PAID"
        /\ IdemCount(calls[s].key, "MARK_PAYMENT_PAID", calls[s].r) = 1
\* the transition tables as the specification lists them
ListedRequestTransitions ==
    {<<"DRAFT", "SUBMITTED">>, <<"DRAFT", "DRAFT">>, <<"SUBMITTED", "PENDING_APPROVAL">>,
     <<"PENDING_APPROVAL", "APPROVED">>, <<"PENDING_APPROVAL", "REJECTED">>,
     <<"APPROVED", "PAID">>}
ListedBatchTransitions ==
    {<<"DRAFT", "SUBMITTED">>, <<"DRAFT", "CANCELLED">>, <<"SUBMITTED", "PROCESSING">>,
     <<"PROCESSING", "COMPLETED">>}
Listed(entity_type) ==
    IF entity_type = "PaymentRequest" THEN ListedRequestTransitions
    ELSE ListedBatchTransitions

\* the status writes of one row in a sequence of writes
WritesOf(ws, entity_type, id) ==
    SelectSeq(ws, LAMBDA w : w.entity_type = entity_type /\ w.id = id)

\* the writes ch take a row from status old to status new, one after the other
Linked(ch, old, new) ==
    /\ Len(ch) > 0
    /\ ch[1].from = old
    /\ ch[Len(ch)].to = new
    /\ \A i \in 1..(Len(ch) - 1) : ch[i].to = ch[i + 1].from

C4_CompletedBatchIsSettled ==
    batch.status = "COMPLETED" =>
        \A r \in ExistingRequests : requests[r].status \in {"APPROVED", "REJECTED", "PAID"}

\* the batch was completed by a mark-paid while another request of it was only
\* APPROVED
C4_Witness ==
    /\ batch.status = "COMPLETED"
    /\ \E r, q \in ExistingRequests :
          requests[r].status = "PAID" /\ requests[q].status = "APPROVED"
\* C5: once every request of a submitted batch is REJECTED or PAID, the batch is
\* COMPLETED (it is not left PROCESSING).
C5_AllSettledCompletesBatch ==
    batch.status = "PROCESSING" =>
        \E r \in ExistingRequests : requests[r].status \notin {"REJECTED", "PAID"}

\* request r goes from APPROVED to PAID in this step
MarkedPaid(r) == requests[r].status = "APPROVED" /\ requests'[r].status = "PAID"

\* C6 as claimed: in a PROCESSING batch of two requests, a mark-paid leaves the
\* batch PROCESSING while the other request is not PAID, and completes the batch
\* when the other request is PAID.
C6_SecondMarkPaidCompletes ==
    [][\A r, q \in ExistingRequests :
          (r # q /\ Cardinality(ExistingRequests) = 2 /\ batch.status = "PROCESSING"
           /\ MarkedPaid(r)) =>
              /\ requests[q].status # "PAID" => batch'.status = "PROCESSING"
              /\ requests[q].status = "PAID" => batch'.status = "COMPLETED"
      ]_vars

\* C6 amended: in a PROCESSING batch of two requests, a mark-paid leaves the batch
\* PROCESSING while the other request is still PENDING_APPROVAL, and completes the
\* batch when the other request is already APPROVED, REJECTED or PAID.
C6_MarkPaidCompletesWhenOtherDecided ==
    [][\A r, q \in ExistingRequests :
          (r # q /\ Cardinality(ExistingRequests) = 2 /\ batch.status = "PROCESSING"
           /\ MarkedPaid(r)) =>
              /\ requests[q].status = "PENDING_APPROVAL" => batch'.status = "PROCESSING"
              /\ requests[q].status \in {"APPROVED", "REJECTED", "PAID"}
                     => batch'.status = "COMPLETED"
      ]_vars

\* the first mark-paid of a two-request batch has completed the batch, the other
\* request being APPROVED
C6_Witness ==
    /\ Cardinality(ExistingRequests) = 2
    /\ Len(writes) = 2
    /\ writes[2] = Write("PaymentBatch", 0, "PROCESSING", "COMPLETED")
    /\ \E q \in ExistingRequests : requests[q].status = "APPROVED"

GeneratedCount(r) ==
    Count(soa, LAMBDA v : v.payment_request = r /\ v.source = "GENERATED")

ApprovedUnderOtherKey(r, k) ==
    /\ requests[r].status = "APPROVED"
    /\ ApprovalCount(r) = 1
    /\ \E k2 \in Keys \ {k} : IdemCount(k2, "APPROVE_PAYMENT_REQUEST", r) = 1
    /\ \A t \in RequestIds : IdemCount(k, "APPROVE_PAYMENT_REQUEST", t) = 0

\* C8: an approve call by an approver, with a key that has no record, on a request
\* already approved under another key fails with InvalidStateError and changes no
\* stored row (no ApprovalRecord, idempotency record or audit entry is added, the
\* request keeps its status and version).
C8_SecondApproveOtherKeyFails ==
    [][\A s \in Slots, u \in Approvers :
          (approve_request_exec(s, u) /\ ApprovedUnderOtherKey(calls[s].r, calls[s].key)) =>
              /\ calls'[s].result = "InvalidStateError"
              /\ UNCHANGED db
              /\ ApprovalCount(calls[s].r)' = 1
      ]_vars

\* such a second approve call has failed
C8_Witness ==
    \E s \in Slots :
        /\ calls[s].pc = "done" /\ calls[s].op = "approve_request"
        /\ calls[s].result = "InvalidStateError"
        /\ calls[s].key \in Keys
        /\ ApprovedUnderOtherKey(calls[s].r, calls[s].key)

\* C9: a reject call on a request already REJECTED, and a mark-paid call on a
\* request already PAID, with a key that has no record, fails with a conflict or
\* invalid-state error; it does not return success.
C9_SecondRejectOrPaidOtherKeyFails ==
    [][\A s \in Slots :
          /\ (/\ \E u \in Approvers : reject_request_exec(s, u)
               /\ requests[calls[s].r].status = "REJECTED"
               /\ \A t \in RequestIds :
                      IdemCount(calls[s].key, "REJECT_PAYMENT_REQUEST", t) = 0)
                 => calls'[s].result \in {"InvalidStateError", "IntegrityError"}
          /\ (/\ \E u \in {x \in Users : MayMarkPaid(x)} : mark_paid_exec(s, u)
               /\ requests[calls[s].r].status = "PAID"
               /\ \A t \in RequestIds :
                      IdemCount(calls[s].key, "MARK_PAYMENT_PAID", t) = 0)
                 => calls'[s].result \in {"InvalidStateError", "IntegrityError"}
      ]_vars

\* C10: a submit_batch call by the owner on a DRAFT batch fails with
\* PreconditionFailedError when the batch has no request and fails when a request
\* does not pass the per-request validation; a call that fails leaves the batch
\* DRAFT with submitted_at unset, every request DRAFT and every table as it was;
\* a call that succeeds leaves the batch PROCESSING, submitted_at set, and every
\* request PENDING_APPROVAL.
C10_SubmitAllOrNothing ==
    [][\A s \in Slots, u \in Users :
          (submit_batch_exec(s, u) /\ batch.status = "DRAFT") =>
              /\ (ExistingRequests = {} /\ ~NotOwner(u))
                     => calls'[s].result = "PreconditionFailedError"
              /\ ((\E r \in ExistingRequests : ~Complete(requests[r])) /\ ~NotOwner(u))
                     => calls'[s].result = "PreconditionFailedError"
              /\ calls'[s].result # "OK" =>
                     /\ UNCHANGED db
                     /\ batch'.status = "DRAFT" /\ ~batch'.submitted_at
                     /\ \A r \in ExistingRequests : requests'[r].status = "DRAFT"
              /\ calls'[s].result = "OK" =>
                     /\ batch'.status = "PROCESSING" /\ batch'.submitted_at
                     /\ ExistingRequests # {}
                     /\ \A r \in ExistingRequests :
                            requests'[r].status = "PENDING_APPROVAL"
      ]_vars

\* a submit_batch call was refused because of one request, the batch holding
\* another request that passes the validation
C10_Witness ==
    /\ batch.status = "DRAFT"
    /\ \E s \in Slots :
          /\ calls[s].pc = "done" /\ calls[s].op = "submit_batch"
          /\ calls[s].result = "PreconditionFailedError"
    /\ \E r, q \in ExistingRequests : Complete(requests[r]) /\ ~Complete(requests[q])
\* the batch holds the one request r, added through add_request, submitted and
\* approved, and key k has not been used for mark-paid
OneApproved(r, k) ==
    /\ ExistingRequests = {r}
    /\ Complete(requests[r])
    /\ requests[r].status = "APPROVED"
    /\ batch.status = "PROCESSING"
    /\ Count(approvals, LAMBDA a : a.payment_request = r /\ a.decision = "APPROVED") = 1
    /\ \E k1 \in Keys \ {k} : IdemCount(k1, "APPROVE_PAYMENT_REQUEST", r) = 1
    /\ ~IdemHit(k, "MARK_PAYMENT_PAID")

C13_NoEditAfterDraft ==
    [][/\ \A s \in Slots, u \in Users, a \in Amounts \cup {0} :
             (/\ \E n \in {"NULL", "", "NAME"} : update_request_exec(s, u, a, n)
              /\ ~NotOwner(u)
              /\ requests[calls[s].r].status # "DRAFT") =>
                 /\ calls'[s].result = "InvalidStateError"
                 /\ UNCHANGED db
       /\ \A r \in ExistingRequests :
             requests[r].status # "DRAFT" => requests'[r].amount = requests[r].amount
      ]_vars

\* an update of an APPROVED request was refused; the request had been edited to
\* another amount while it was DRAFT
C13_Witness ==
    \E s \in Slots :
        /\ calls[s].pc = "done" /\ calls[s].op = "update_request"
        /\ calls[s].result = "InvalidStateError"
        /\ calls[s].r \in ExistingRequests
        /\ requests[calls[s].r].status = "APPROVED"
        /\ requests[calls[s].r].amount = MaxAmount
        /\ Count(audit, LAMBDA e : e.event_type = "REQUEST_UPDATED") >= 1
\* the row of the call in slot s no longer has the status src and the version the
\* call read: its version-locked update matches zero rows
ZeroRows(s, src) ==
    /\ calls[s].st = src
    /\ Filter(requests, calls[s].r, src, calls[s].ver) = {}

Transitions(r) ==
    AuditCount("APPROVAL_RECORDED", r, "APPROVED")
    + AuditCount("APPROVAL_RECORDED", r, "REJECTED")
    + AuditCount("REQUEST_PAID", r, "PAID")

\* C15: in every state the version of a request is 1 plus the number of approve,
\* reject and mark-paid transitions it has committed; no step decreases it, and a
\* step changes it only by adding 1 while it moves the request to APPROVED,
\* REJECTED or PAID (edits, submission, failed calls and replays leave it alone).
C15_VersionCountsTransitions ==
    /\ [](\A r \in ExistingRequests : requests[r].version = 1 + Transitions(r))
    /\ [][\A r \in ExistingRequests :
              \/ requests'[r].version = requests[r].version
              \/ /\ requests'[r].version = requests[r].version + 1
                 /\ requests'[r].status # requests[r].status
                 /\ requests'[r].status \in {"APPROVED", "REJECTED", "PAID"}
          ]_vars

\* a request that was edited, submitted, approved and paid has version 3
C15_Witness ==
    \E r \in ExistingRequests :
        /\ requests[r].status = "PAID" /\ requests[r].version = 3
        /\ requests[r].amount = MaxAmount
        /\ Count(audit, LAMBDA e : e.event_type = "REQUEST_UPDATED" /\ e.entity_id = r) >= 1
\* C16: in every state a request has at most one ApprovalRecord; it has one exactly
\* when its status is APPROVED, REJECTED or PAID; the record's decision is
\* REJECTED when the status is REJECTED and APPROVED otherwise; and no step
\* changes or removes a record that exists.
C16_OneApprovalRecord ==
    /\ [](\A r \in ExistingRequests :
              /\ ApprovalCount(r) <= 1
              /\ ApprovalCount(r) = 1 <=>
                     requests[r].status \in {"APPROVED", "REJECTED", "PAID"}
              /\ \A a \in ApprovalsOf(r) :
                     a.decision = IF requests[r].status = "REJECTED"
                                  THEN "REJECTED" ELSE "APPROVED")
    /\ [][approvals \sqsubseteq approvals']_vars

\* one request is REJECTED and another PAID, each with its record
C16_Witness ==
    \E r, q \in ExistingRequests :
        /\ requests[r].status = "REJECTED" /\ requests[q].status = "PAID"
        /\ ApprovalsOf(r) = {ApprovalRow(r, "REJECTED", "approver")}
        /\ ApprovalsOf(q) = {ApprovalRow(q, "APPROVED", "approver")}
\* idempotency records of an operation that name request r
IdemFor(operation, r) ==
    Count(idem, LAMBDA k : k.operation = operation /\ k.target = r)

\* C17: in every state, those with calls in flight included, each keyed create,
\* approve, reject and mark-paid that has committed on a request has its
\* idempotency record and there is no record without its mutation: the records
\* of an operation that name a request are as many as the operation's audit
\* entries for it, a record names an existing request in the status the operation
\* leads to (or a later one), and a (key, operation) pair has one record at most.
C17_KeyRecordedWithMutation ==
    /\ \A r \in RequestIds :
          /\ IdemFor("CREATE_PAYMENT_REQUEST", r) = AuditCount("REQUEST_CREATED", r, "DRAFT")
          /\ IdemFor("APPROVE_PAYMENT_REQUEST", r)
                 = AuditCount("APPROVAL_RECORDED", r, "APPROVED")
          /\ IdemFor("REJECT_PAYMENT_REQUEST", r)
                 = AuditCount("APPROVAL_RECORDED", r, "REJECTED")
          /\ IdemFor("MARK_PAYMENT_PAID", r) = AuditCount("REQUEST_PAID", r, "PAID")
          /\ IdemFor("APPROVE_PAYMENT_REQUEST", r)
                 = IF requests[r].status \in {"APPROVED", "PAID"} THEN 1 ELSE 0
          /\ IdemFor("REJECT_PAYMENT_REQUEST", r)
                 = IF requests[r].status = "REJECTED" THEN 1 ELSE 0
          /\ IdemFor("MARK_PAYMENT_PAID", r)
                 = IF requests[r].status = "PAID" THEN 1 ELSE 0
    /\ \A k \in BagToSet(idem) :
          /\ k.target \in ExistingRequests
          /\ idem[k] = 1
          /\ IdemRows(k.key, k.operation) = {k}

\* a mark-paid call is between its update and its commit while the records of the
\* create and the approve are stored: its own record is not there yet
C17_Witness ==
    \E s \in Slots :
        /\ calls[s].op = "mark_paid" /\ calls[s].pc = "cascade"
        /\ IdemFor("APPROVE_PAYMENT_REQUEST", calls[s].r) = 1
        /\ IdemFor("CREATE_PAYMENT_REQUEST", calls[s].r) = 1
        /\ IdemFor("MARK_PAYMENT_PAID", calls[s].r) = 0
        /\ \E q \in ExistingRequests : IdemFor("REJECT_PAYMENT_REQUEST", q) = 1
KeyedOperation(op) ==
    CASE op = "add_request" -> "CREATE_PAYMENT_REQUEST"
      [] op = "approve_request" -> "APPROVE_PAYMENT_REQUEST"
      [] op = "reject_request" -> "REJECT_PAYMENT_REQUEST"
      [] op = "mark_paid" -> "MARK_PAYMENT_PAID"
      [] OTHER -> "NONE"

\* the call in slot s takes its step after the lookup; its lookup missed, and the
\* record of its key has been committed since by the other call
LostRace(s) ==
    /\ calls[s].pc \in {"exec", "cascade"}
    /\ KeyedOperation(calls[s].op) # "NONE"
    /\ IdemHit(calls[s].key, KeyedOperation(calls[s].op))
    /\ calls'[s].pc = "done"

C19_ExistingRecordIsSuccess ==
    [][\A s \in Slots :
          (/\ \/ \E u \in Approvers : approve_request_exec(s, u)
              \/ \E u \in Approvers : reject_request_exec(s, u)
           /\ ApprovalsOf(calls[s].r) # {}
           /\ ~IdemHit(calls[s].key, KeyedOperation(calls[s].op))) =>
              /\ calls'[s].result = "OK"
              /\ calls'[s].ret = calls[s].r
              /\ ApprovalCount(calls[s].r)' = 1
      ]_vars
LegacyShape(row) == row.beneficiary_name \notin {"NULL", ""}

\* the ledger shape of a stored request: it refers to a ledger entity
LedgerShape(row) == row.entity_type \in {"VENDOR", "SUBCONTRACTOR"}

\* C21: in every state reached through add_request and update_request calls each
\* request has the legacy beneficiary fields or the ledger entity reference
\* filled in, not both and not neither; an update_request call that names a
\* beneficiary on a ledger-driven request changes no stored row.
C21_OneShape ==
    /\ [](\A r \in ExistingRequests :
              /\ LegacyShape(requests[r]) \/ LedgerShape(requests[r])
              /\ ~(LegacyShape(requests[r]) /\ LedgerShape(requests[r]))
              /\ LedgerShape(requests[r]) <=> requests[r].entity_type # "NULL"
              /\ LegacyShape(requests[r]) <=> requests[r].beneficiary_name # "NULL")
    /\ [][\A s \in Slots, u \in Users, a \in {Null, 0, MaxAmount} :
              (update_request_exec(s, u, a, "NAME")
               /\ LedgerShape(requests[calls[s].r])) =>
                  /\ calls'[s].result # "OK"
                  /\ UNCHANGED db
          ]_vars

\* the batch holds a legacy request and a ledger-driven one, and an update_request
\* call by the owner on the ledger-driven one, still DRAFT, was answered with an
\* IntegrityError
C21_Witness ==
    /\ \E r, q \in ExistingRequests :
          LegacyShape(requests[r]) /\ LedgerShape(requests[q])
    /\ \E s \in Slots :
          /\ calls[s].op = "update_request" /\ calls[s].pc = "done"
          /\ calls[s].result = "IntegrityError"
          /\ calls[s].r \in ExistingRequests
          /\ LedgerShape(requests[calls[s].r])
          /\ requests[calls[s].r].status = "DRAFT"
\* base_amount + extra_amount of a body, an extra amount left out counting as 0
SumOf(body) ==
    body.base_amount + (IF body.extra_amount = Null THEN 0 ELSE body.extra_amount)

\* C22: in every state a request whose total_amount is set has base_amount and
\* extra_amount set and total_amount = base_amount + extra_amount; and an
\* add_request call by the owner with a valid ledger-driven body succeeds and
\* stores base_amount + extra_amount as the total, whatever total the client
\* claimed.
C22_TotalIsServerSum ==
    /\ [](\A r \in ExistingRequests :
              requests[r].total_amount # Null =>
                  /\ requests[r].base_amount # Null /\ requests[r].extra_amount # Null
                  /\ requests[r].total_amount
                         = requests[r].base_amount + requests[r].extra_amount)
    /\ [][\A s \in Slots, u \in Users :
              (/\ add_request_exec(s, u)
               /\ ~NotOwner(u) /\ batch.status = "DRAFT"
               /\ calls[s].body.entity_type # "NULL" /\ BodyValid(calls[s].body)
               /\ ~IdemHit(calls[s].key, "CREATE_PAYMENT_REQUEST")) =>
                  /\ calls'[s].result = "OK"
                  /\ requests[calls'[s].ret].status = "NONE"
                  /\ requests'[calls'[s].ret].total_amount = SumOf(calls[s].body)
                  /\ requests'[calls'[s].ret].base_amount = calls[s].body.base_amount
          ]_vars

\* a ledger-driven request was created from a body that claimed a total other
\* than base_amount + extra_amount, the extra amount being positive
C22_Witness ==
    \E s \in Slots :
        /\ calls[s].op = "add_request" /\ calls[s].pc = "done"
        /\ calls[s].result = "OK"
        /\ calls[s].body.totalAmount # Null
        /\ calls[s].body.extra_amount > 0
        /\ calls[s].ret \in ExistingRequests
        /\ requests[calls[s].ret].total_amount # calls[s].body.totalAmount
        /\ requests[calls[s].ret].total_amount = SumOf(calls[s].body)
TransitionEntries(event_type, entity_type, id, previous_state, new_state) ==
    Count(audit, LAMBDA e : /\ e.event_type = event_type
                            /\ e.entity_type = entity_type
                            /\ e.entity_id = id
                            /\ e.previous_state = previous_state
                            /\ e.new_state = new_state)

\* 1 when the condition holds, else 0
OneIf(cond) == IF cond THEN 1 ELSE 0

\* C24: in every state each committed status transition of a request or of the
\* batch has exactly one audit entry with its previous and new state, and each
\* such entry has its committed transition: a request has one REQUEST_PAID entry
\* when it is PAID and none otherwise, one APPROVAL_RECORDED entry of its decision,
\* one REQUEST_SUBMITTED entry for each of the two submission steps once it has
\* left DRAFT; the batch has one BATCH_COMPLETED entry when it is COMPLETED and
\* none otherwise, and likewise for its submission and cancellation.
C24_OneAuditEntryPerTransition ==
    /\ \A r \in ExistingRequests :
          /\ TransitionEntries("REQUEST_SUBMITTED", "PaymentRequest", r, "DRAFT", "SUBMITTED")
                 = OneIf(requests[r].status # "DRAFT")
          /\ TransitionEntries("REQUEST_SUBMITTED", "PaymentRequest", r, "SUBMITTED",
                               "PENDING_APPROVAL")
                 = OneIf(requests[r].status # "DRAFT")
          /\ TransitionEntries("APPROVAL_RECORDED", "PaymentRequest", r,
                               "PENDING_APPROVAL", "APPROVED")
                 = OneIf(requests[r].status \in {"APPROVED", "PAID"})
          /\ TransitionEntries("APPROVAL_RECORDED", "PaymentRequest", r,
                               "PENDING_APPROVAL", "REJECTED")
                 = OneIf(requests[r].status = "REJECTED")
          /\ TransitionEntries("REQUEST_PAID", "PaymentRequest", r, "APPROVED", "PAID")
                 = OneIf(requests[r].status = "PAID")
          /\ Count(audit, LAMBDA e : e.event_type = "REQUEST_PAID" /\ e.entity_id = r)
                 = OneIf(requests[r].status = "PAID")
    /\ TransitionEntries("BATCH_SUBMITTED", "PaymentBatch", 0, "DRAFT", "SUBMITTED")
           = OneIf(batch.status \in {"SUBMITTED", "PROCESSING", "COMPLETED"})
    /\ TransitionEntries("BATCH_SUBMITTED", "PaymentBatch", 0, "SUBMITTED", "PROCESSING")
           = OneIf(batch.status \in {"PROCESSING", "COMPLETED"})
    /\ Count(audit, LAMBDA e : e.event_type = "BATCH_COMPLETED")
           = OneIf(batch.status = "COMPLETED")
    /\ Count(audit, LAMBDA e : e.event_type = "BATCH_CANCELLED")
           = OneIf(batch.status = "CANCELLED")

\* two mark-paid calls met in the cascade: one completed the batch, the other was
\* ended by the deadlock detection and left its request APPROVED; the batch has
\* its one BATCH_COMPLETED entry and the paid request its one REQUEST_PAID entry
C24_Witness ==
    \E s, t \in Slots :
        /\ calls[s].op = "mark_paid" /\ calls[s].pc = "done" /\ calls[s].result = "OK"
        /\ calls[t].op = "mark_paid" /\ calls[t].pc = "done"
        /\ calls[t].result = "OperationalError"
        /\ batch.status = "COMPLETED"
        /\ Count(audit, LAMBDA e : e.event_type = "BATCH_COMPLETED") = 1
        /\ requests[calls[s].ret].status = "PAID"
        /\ Count(audit, LAMBDA e : e.event_type = "REQUEST_PAID") = 1
        /\ \E r \in ExistingRequests : requests[r].status = "APPROVED"
\* the mark-paid call in slot s is past its lookup, its request is APPROVED and
\* its key has no record
MarkPaidDue(s) ==
    /\ calls[s].op = "mark_paid" /\ calls[s].pc = "exec"
    /\ requests[calls[s].r].status = "APPROVED"
    /\ ~IdemHit(calls[s].key, "MARK_PAYMENT_PAID")

\* C25: a mark-paid call by a user with role ADMIN on an APPROVED request succeeds:
\* it is not refused, and the request is PAID when the call has committed.
C25_AdminMarksPaid ==
    [][\A s \in Slots :
          /\ (MarkPaidDue(s) /\ mark_paid_exec(s, "admin")) =>
                 /\ calls'[s].result \in {"none", "OK"}
                 /\ calls'[s].pc = "done" => requests'[calls[s].r].status = "PAID"
          /\ (mark_paid_cascade(s) /\ calls[s].actor = "admin") =>
                 /\ calls'[s].result = "OK"
                 /\ requests'[calls[s].r].status = "PAID"
      ]_vars

\* C26: a mark-paid call by a user with role CREATOR, APPROVER or VIEWER on an
\* APPROVED request is refused with a permission error, answered 403, and changes
\* no stored row: the request stays APPROVED and no audit entry or idempotency
\* record is written.
C26_OthersCannotMarkPaid ==
    [][\A s \in Slots, u \in {x \in Users : Role(x) \in {"CREATOR", "APPROVER", "VIEWER"}} :
          (MarkPaidDue(s) /\ mark_paid_exec(s, u)) =>
              /\ calls'[s].result = "PermissionDeniedError"
              /\ Response("mark_paid", calls'[s].result) = 403
              /\ UNCHANGED db
              /\ requests'[calls[s].r].status = "APPROVED"
      ]_vars
\* the call in slot s decides a request in this step, as user u
Decides(s, u) == approve_request_exec(s, u) \/ reject_request_exec(s, u)

\* C27: an approve or reject call that reaches the role check (its key has no
\* record) as a user whose role is not APPROVER or ADMIN fails with
\* PermissionDeniedError and changes no stored row: the request keeps its status
\* and no ApprovalRecord, idempotency record or audit entry is written.  A step
\* that adds an ApprovalRecord or moves a request out of PENDING_APPROVAL is an
\* approve or reject step by an APPROVER or ADMIN.
C27_OnlyApproversDecide ==
    [][/\ \A s \in Slots, u \in {x \in Users : Role(x) \notin {"APPROVER", "ADMIN"}} :
             Decides(s, u) =>
                 /\ calls'[s].result = "PermissionDeniedError"
                 /\ calls'[s].pc = "done"
                 /\ UNCHANGED db
                 /\ requests'[calls[s].r].status = requests[calls[s].r].status
                 /\ ApprovalCount(calls[s].r)' = ApprovalCount(calls[s].r)
       /\ (\/ approvals' # approvals
           \/ \E r \in ExistingRequests :
                  /\ requests[r].status = "PENDING_APPROVAL"
                  /\ requests'[r].status # "PENDING_APPROVAL")
              => \E s \in Slots, u \in Users :
                     Role(u) \in {"APPROVER", "ADMIN"} /\ Decides(s, u)
      ]_vars

\* a reject call on a PENDING_APPROVAL request was refused for the caller's role:
\* the request is PENDING_APPROVAL, has no ApprovalRecord and no audit entry of a
\* decision, and the call's key has no record
C27_Witness ==
    \E s \in Slots :
        /\ calls[s].op = "reject_request" /\ calls[s].pc = "done"
        /\ calls[s].result = "PermissionDeniedError"
        /\ calls[s].r \in ExistingRequests
        /\ requests[calls[s].r].status = "PENDING_APPROVAL"
        /\ ApprovalsOf(calls[s].r) = {}
        /\ calls[s].key # NoKey
        /\ ~IdemHit(calls[s].key, "REJECT_PAYMENT_REQUEST")
        /\ Count(audit, LAMBDA e : e.event_type = "APPROVAL_RECORDED"
                                   /\ e.entity_id = calls[s].r) = 0
\* the states of a kind that its table gives no transition
TerminalStates(entity_type) ==
    IF entity_type = "PaymentRequest" THEN {"REJECTED", "PAID"}
    ELSE {"COMPLETED", "CANCELLED"}

\* a validate_transition call on one of the two kinds has returned or raised
Validated(s) ==
    /\ calls[s].op = "validate_transition" /\ calls[s].pc = "done"
    /\ calls[s].body.entity_type \in {"PaymentRequest", "PaymentBatch"}

\* C28 as claimed: validate_transition returns success exactly when the table of
\* the kind lists the target for the current state (DRAFT to DRAFT being listed
\* for PaymentRequest only), otherwise it raises InvalidStateError, with the
\* terminal-state message exactly when the current state is terminal.
C28_SuccessIffListed ==
    \A s \in Slots :
        Validated(s) =>
            LET a == calls[s].body IN
            /\ calls[s].result = "OK" <=>
                   <<a.current_status, a.target_status>> \in Listed(a.entity_type)
            /\ calls[s].result \in {"OK", "InvalidStateError"}
            /\ a.message = "Terminal" <=>
                   a.current_status \in TerminalStates(a.entity_type)

\* C28 amended: validate_transition returns success exactly when the table of the
\* kind lists the target for the current state or the current state and the
\* target are both DRAFT, for a batch as for a request; otherwise it raises
\* InvalidStateError, with the terminal-state message exactly when the current
\* state is terminal.
C28_SuccessIffListedOrDraftEdit ==
    \A s \in Slots :
        Validated(s) =>
            LET a == calls[s].body IN
            /\ calls[s].result = "OK" <=>
                   \/ <<a.current_status, a.target_status>> \in Listed(a.entity_type)
                   \/ a.current_status = "DRAFT" /\ a.target_status = "DRAFT"
            /\ calls[s].result \in {"OK", "InvalidStateError"}
            /\ a.message = "Terminal" <=>
                   a.current_status \in TerminalStates(a.entity_type)

\* validate_transition("PaymentBatch", "DRAFT", "DRAFT") has returned True
C28_Witness ==
    \E s \in Slots :
        /\ Validated(s)
        /\ calls[s].body.entity_type = "PaymentBatch"
        /\ calls[s].body.current_status = "DRAFT"
        /\ calls[s].body.target_status = "DRAFT"
        /\ calls[s].result = "OK"
\* an add_request call with body b arrives under key k, which a stored
\* CREATE_PAYMENT_REQUEST record already holds
CreateReplay(s, k, b) ==
    /\ add_request_start(s, k, b)
    /\ IdemRows(k, "CREATE_PAYMENT_REQUEST") # {}

Payload(row) == [row EXCEPT !.status = "DRAFT", !.version = 1]

\* request t still has the fields it was created with, and body b asks for
\* other fields: b is not the body t was created from
OtherBody(b, t) ==
    /\ Count(audit, LAMBDA e : e.event_type = "REQUEST_UPDATED" /\ e.entity_id = t) = 0
    /\ Payload(RequestData(b)) # Payload(requests[t])

\* a valid body other than the one the key was used with is answered 409
OtherBodyIs409 ==
    [][\A s \in Slots, k \in Keys, b \in Bodies :
          LET t == IdemTarget(k, "CREATE_PAYMENT_REQUEST") IN
          (CreateReplay(s, k, b) /\ BodyValid(b) /\ OtherBody(b, t)) =>
              /\ calls'[s].pc = "done"
              /\ Response("add_request", calls'[s].result) = 409
      ]_vars

\* a body that asks for the fields the request has is answered with the request
SameBodyReplays ==
    [][\A s \in Slots, k \in Keys, b \in Bodies :
          LET t == IdemTarget(k, "CREATE_PAYMENT_REQUEST") IN
          (CreateReplay(s, k, b) /\ Payload(RequestData(b)) = Payload(requests[t])) =>
              /\ calls'[s].pc = "done"
              /\ calls'[s].result = "OK"
              /\ calls'[s].ret = t
      ]_vars

\* a valid body under a key that has no record creates a request
NewKeyCreates ==
    [][\A s \in Slots :
          (/\ add_request_exec(s, "creator")
           /\ batch.status = "DRAFT"
           /\ BodyValid(calls[s].body)
           /\ RequestRowAccepted(RequestData(calls[s].body))) =>
              /\ calls'[s].result = "OK"
              /\ calls'[s].ret \notin ExistingRequests
              /\ Payload(requests'[calls'[s].ret]) = Payload(RequestData(calls[s].body))
      ]_vars

\* C30: a create-request call under a key that was used with a different body
\* is answered 409 and does not return the earlier request; under the same key
\* with the same body it returns the earlier request; and a valid body under a
\* key not used before creates a new request.
C30_OtherBodyConflicts == OtherBodyIs409 /\ SameBodyReplays /\ NewKeyCreates
\* C31: in every state reached by interleaved submit_batch, approve, reject and
\* mark-paid calls, the completion cascade included, no call is in a cycle of
\* calls that wait for each other's locks.
C31_NoWaitCycle == \A s \in Slots : ~Deadlocked(s)

\* the two slots hold mark-paid calls on different requests that have returned
BothPaidReturned ==
    /\ calls[1].op = "mark_paid" /\ calls[1].pc = "done"
    /\ calls[2].op = "mark_paid" /\ calls[2].pc = "done"
    /\ calls[1].r # calls[2].r

\* C32: when two mark-paid calls on the two APPROVED requests of a PROCESSING
\* batch have returned, however their steps were interleaved, both have
\* succeeded, both requests are PAID, the batch is COMPLETED, there is exactly one
\* BATCH_COMPLETED audit entry and each request has exactly one GENERATED SOA
\* version.
C32_ConcurrentPaidCompletesOnce ==
    BothPaidReturned =>
        /\ calls[1].result = "OK" /\ calls[2].result = "OK"
        /\ \A r \in RaceRequests : requests[r].status = "PAID"
        /\ batch.status = "COMPLETED"
        /\ Count(audit, LAMBDA e : e.event_type = "BATCH_COMPLETED") = 1
        /\ \A r \in RaceRequests :
               Count(soa, LAMBDA v : v.payment_request = r /\ v.source = "GENERATED") = 1
\* the call in slot s takes a step of a reject call on a REJECTED request or of a
\* mark-paid call on a PAID request: its lookup under key k, the read of the row,
\* or its checks by a user with the role for the operation
SettledAgain(s, r, k) ==
    \/ /\ requests[r].status = "REJECTED"
       /\ \/ Free(s) /\ reject_request_start(s, r, k)
          \/ /\ calls[s].r = r /\ calls[s].key = k
             /\ \/ reject_request_lock(s)
                \/ \E u \in Approvers : reject_request_exec(s, u)
    \/ /\ requests[r].status = "PAID"
       /\ \/ Free(s) /\ mark_paid_start(s, r, k)
          \/ /\ calls[s].r = r /\ calls[s].key = k
             /\ \/ mark_paid_lock(s)
                \/ \E u \in {x \in Users : MayMarkPaid(x)} : mark_paid_exec(s, u)

\* what C33 promises of such a step: nothing is written and no cascade starts,
\* and when the call returns it returns request r as a success
ReturnsSettled(s, r) ==
    /\ UNCHANGED db
    /\ calls'[s].pc \in {"lock", "exec", "done"}
    /\ calls'[s].pc = "done" =>
           /\ calls'[s].result = "OK"
           /\ calls'[s].ret = r
           /\ calls'[s].retst = requests[r].status

KeyNotOfOther(op, r, k) ==
    \A x \in IdemRows(k, KeyedOperation(op)) : x.target = r

ReturnedOn(op, r) ==
    {s \in Slots : calls[s].op = op /\ calls[s].r = r /\ calls[s].pc = "done"}

ReturnedOk(op, r) == {s \in ReturnedOn(op, r) : calls[s].result = "OK"}

\* an approve call and a reject call on request r have both returned and no call
\* on r is still running
Decided(r) ==
    /\ ReturnedOn("approve_request", r) # {}
    /\ ReturnedOn("reject_request", r) # {}
    /\ \A s \in Slots : calls[s].r = r => calls[s].pc \in {"idle", "done"}

UpdateReadsCurrent ==
    \A s \in Slots :
        calls[s].op = "update_request" /\ calls[s].pc = "exec" =>
            /\ requests[calls[s].r].status = calls[s].st
            /\ requests[calls[s].r].version = calls[s].ver

C36_CancelOrSubmit ==
    \A a, b \in Slots :
        (/\ calls[a].op = "cancel_batch" /\ calls[a].pc = "done"
         /\ calls[b].op = "submit_batch" /\ calls[b].pc = "done") =>
            /\ {calls[a].result, calls[b].result} \subseteq {"OK", "InvalidStateError"}
            /\ batch.status \in {"CANCELLED", "PROCESSING"}
            /\ batch.status = "CANCELLED" =>
                   \A r \in BatchRequests : requests[r].status = "DRAFT"
            /\ batch.status = "PROCESSING" =>
                   \A r \in BatchRequests : requests[r].status # "DRAFT"
\* C37: a request is only created in a batch that is DRAFT when the creation
\* commits, whatever submit_batch or cancel_batch calls run beside the
\* add_request: every step that creates a request row starts and ends with the
\* batch in DRAFT, and a PROCESSING batch never contains a DRAFT request.
C37_CreatedInDraftBatch ==
    [][/\ \A r \in RequestIds :
             requests[r].status = "NONE" /\ requests'[r].status # "NONE" =>
                 /\ batch.status = "DRAFT" /\ batch'.status = "DRAFT"
                 /\ requests'[r].status = "DRAFT"
       /\ batch'.status = "PROCESSING" =>
             \A r \in RequestIds : requests'[r].status # "DRAFT"
      ]_vars

\* an add_request that waited for the batch row while submit_batch held it: the
\* submission has committed, the add_request found the batch PROCESSING and
\* failed, and the batch holds its submitted request only
C37_Witness ==
    \E a, b \in Slots :
        /\ calls[a].op = "add_request" /\ calls[a].pc = "done"
        /\ calls[a].result = "InvalidStateError"
        /\ calls[b].op = "submit_batch" /\ calls[b].pc = "done"
        /\ calls[b].result = "OK"
        /\ batch.status = "PROCESSING"
        /\ FreeIds # {}
        /\ \A r \in ExistingRequests : requests[r].status = "PENDING_APPROVAL"
SoaCount(r) == Count(soa, LAMBDA v : v.payment_request = r)

SoaNumbered(r, n) ==
    Count(soa, LAMBDA v : v.payment_request = r /\ v.version_number = n)

C40_ReturnsNamedRequest ==
    \A s \in Slots :
        (/\ calls[s].op \in {"approve_request", "reject_request", "mark_paid"}
         /\ calls[s].pc = "done"
         /\ calls[s].result = "OK") =>
            calls[s].ret = calls[s].r
====
